---- MODULE Spec2Model ----
(***************************************************************************)
(* State-machine model of the autoregressive generation step of            *)
(* src/models.py: the forward pass of the MACE wrapper in training mode    *)
(* (teacher forced) and in evaluation mode (focus, species and position    *)
(* decided by sampling), with the helpers get_first_node_indices and       *)
(* segment_sample.                                                         *)
(*                                                                         *)
(* Arrays are functions over 0..n-1, so indices are the code's indices.    *)
(* Probabilities are rationals <<numerator, denominator>> in lowest terms; *)
(* exp on an integer logit is the fraction of small denominator that       *)
(* rounds to the float32 value the code computes, and the sums and         *)
(* quotients of a softmax are then exact, so a probability agrees with the *)
(* code's float32 to about seven digits.  A PRNG key is the path of splits *)
(* that produced it; the uniform number a key yields is fixed the first    *)
(* time the key is drawn from and is the same on every later draw.         *)
(***************************************************************************)
EXTENDS Integers, Sequences, FiniteSets, TLC

VARIABLES
    graphs,                  \* the input batch (datatypes.Fragment)
    params,                  \* the learned weights of the heads
    run_in_evaluation_mode,  \* MACE.run_in_evaluation_mode
    hk_key,                  \* the key hk.next_rng_key() hands to this call
    uniform,                 \* key -> level of the uniform number it yields
    pc,                      \* position in the forward pass
    loc,                     \* the local variables of the running pass
    consumed,                \* log of the keys given to split or choice
    stages,                  \* log of the stages the running pass has done
    out,                     \* the value returned by the pass
    calls,                   \* the completed calls: inputs and outputs
    config                   \* constructor arguments of a head called alone

vars == <<graphs, params, run_in_evaluation_mode, hk_key, uniform, pc, loc,
          consumed, stages, out, calls, config>>

----------------------------------------------------------------------------
(* Bounds of the model.                                                    *)

\* most graphs in one batch
MaxGraphs == 2
\* most nodes in one batch
MaxNodes == MaxGraphs + 1
\* number of levels of a uniform draw: u = k / NumLevels, k in 0..NumLevels-1
NumLevels == 2

\* largest degree of the spherical harmonics of a position head
MaxLmax == 2
\* most channels of a position head
MaxChannels == 2
\* most candidate radii of a position head
MaxRadii == 3
\* largest radius bound of a position head, in whole length units
MaxRadius == 2

(* Program constants.                                                       *)

\* the size of the element vocabulary
NUM_ELEMENTS == 5
\* number of levels of a quantised node feature, the stand-in for the
\* encoder's real-valued feature vector
NumEmbLevels == 2
\* largest species index used in the input batches
MaxSpecies == NumEmbLevels - 1
\* largest weight of a learned layer
MaxWeight == NumEmbLevels - 1

\* the value of a local that is not assigned yet
NoValue == << >>

----------------------------------------------------------------------------
(* Arrays and exact rationals.                                             *)

Len0(a) == Cardinality(DOMAIN a)

Arange(n) == [i \in 0..(n - 1) |-> i]

RECURSIVE SumTo(_, _)
\* a[0] + ... + a[k-1]
SumTo(a, k) == IF k <= 0 THEN 0 ELSE SumTo(a, k - 1) + a[k - 1]

Sum(a) == SumTo(a, Len0(a))

Abs(a) == IF a >= 0 THEN a ELSE 0 - a

Max2(a, b) == IF a >= b THEN a ELSE b
Min2(a, b) == IF a <= b THEN a ELSE b

RECURSIVE MaxTo(_, _)
\* the largest of a[0..k-1], k >= 1
MaxTo(a, k) == IF k <= 1 THEN a[0] ELSE Max2(MaxTo(a, k - 1), a[k - 1])

RECURSIVE GCD(_, _)
GCD(a, b) == IF b = 0 THEN a ELSE GCD(b, a % b)

\* the rational n/d in lowest terms, d > 0
Rat(n, d) == LET g == GCD(n, d) IN <<n \div g, d \div g>>
RZero == <<0, 1>>
ROne == <<1, 1>>
RAdd(x, y) == Rat(x[1] * y[2] + y[1] * x[2], x[2] * y[2])
RMul(x, y) == Rat(x[1] * y[1], x[2] * y[2])
RDiv(x, y) == Rat(x[1] * y[2], x[2] * y[1])
RLess(x, y) == x[1] * y[2] < y[1] * x[2]

RECURSIVE RSumTo(_, _)
\* p[0] + ... + p[k-1]
RSumTo(p, k) == IF k <= 0 THEN RZero ELSE RAdd(RSumTo(p, k - 1), p[k - 1])

\* jnp.cumsum on an array of rationals
RCumsum(p) == [i \in DOMAIN p |-> RSumTo(p, i + 1)]

\* jnp.exp(x) for an integer x in -4..0, the differences of logits a
\* softmax takes it of: the fraction of smallest denominator that rounds
\* to the float32 result (0.36787945, 0.13533528, 0.04978707, 0.01831564)
Exp(x) ==
    CASE x = 0 -> ROne
      [] x = 0 - 1 -> <<1001, 2721>>
      [] x = 0 - 2 -> <<1663, 12288>>
      [] x = 0 - 3 -> <<1134, 22777>>
      [] x = 0 - 4 -> <<540, 29483>>

\* jnp.linspace(start, stop, num) without its last point: num values one
\* step apart, the stop left out
linspace_open(start, stop, num) ==
    [i \in 0..(num - 1) |-> Rat(start * num + i * (stop - start), num)]

\* jnp.linspace(start, stop, num) for integers start <= stop: num evenly
\* spaced values, the last one the stop itself; a single value is the start
linspace(start, stop, num) ==
    [i \in 0..(num - 1) |->
        IF num = 1 THEN Rat(start, 1)
        ELSE IF i = num - 1 THEN Rat(stop, 1)
        ELSE Rat(start * (num - 1) + i * (stop - start), num - 1)]

\* jnp.arange(start, stop, step) for numbers given in hundredths: the
\* values start + i * step below stop
arange(start, stop, step) ==
    LET n == (stop - start + step - 1) \div step
    IN  [i \in 0..(n - 1) |-> Rat(start + i * step, 100)]

\* the candidate radii of the position head of MACE
RADII == arange(75, 203, 2)

----------------------------------------------------------------------------
(* JAX primitives used by src/models.py.                                   *)

\* x[i] for a traced index: a negative index counts from the end, and an
\* index that is still out of range is clamped to the nearest valid one
Gather(x, i) ==
    LET n == Len0(x)
        j == IF i < 0 THEN i + n ELSE i
    IN  x[Max2(0, Min2(j, n - 1))]

\* jnp.cumsum on an array of integers
Cumsum(a) == [i \in DOMAIN a |-> SumTo(a, i + 1)]

\* jnp.repeat(a, repeats, total_repeat_length=total): element i of a is
\* repeated repeats[i] times; the result is cut to, or padded with its final
\* value up to, total elements
Repeat(a, repeats, total) ==
    LET c == Cumsum(repeats)
        n == Len0(a)
        at(j) == Cardinality({i \in DOMAIN c : c[i] <= j})
    IN  [j \in 0..(total - 1) |-> a[Min2(at(j), n - 1)]]

\* jax.random.split(key, num): num new keys
split(key, num) == [i \in 0..(num - 1) |-> Append(key, i)]

\* jnp.searchsorted(a, v), side "left": the number of elements below v
Searchsorted(a, v) == Cardinality({i \in DOMAIN a : RLess(a[i], v)})

\* the index jax.random.choice draws under the weights p, where the key
\* yields the uniform number u = level / NumLevels:
\* r = p_cuml[-1] * (1 - u), ind = searchsorted(p_cuml, r)
choice_ind(level, p) ==
    LET p_cuml == RCumsum(p)
        r == RMul(p_cuml[Len0(p) - 1], Rat(NumLevels - level, NumLevels))
    IN  Searchsorted(p_cuml, r)

\* jax.random.choice(key, a, p=p) for an array a: a[ind]
choice(level, a, p) == Gather(a, choice_ind(level, p))

\* choice_n whose search counts the elements up to and including r
choice_n_right(level, n, p) ==
    LET p_cuml == RCumsum(p)
        r == RMul(p_cuml[Len0(p) - 1], Rat(NumLevels - level, NumLevels))
    IN  Cardinality({i \in DOMAIN p_cuml : ~RLess(r, p_cuml[i])})

\* jax.random.choice(key, n, p=p) for an integer n: ind itself
choice_n(level, n, p) == choice_ind(level, p)

\* jax.nn.softmax on one row of integer logits
softmax(x) ==
    LET m == MaxTo(x, Len0(x))
        e == [i \in DOMAIN x |-> Exp(x[i] - m)]
        s == RSumTo(e, Len0(e))
    IN  [i \in DOMAIN x |-> RDiv(e[i], s)]

\* partition_softmax with one more unit of mass in every denominator
partition_softmax_extra_mass(logits, n_node, sum_n_node) ==
    LET ids == Repeat(Arange(Len0(n_node)), n_node, sum_n_node)
        seg(g) == {j \in DOMAIN logits : ids[j] = g}
        maxs(g) == CHOOSE m \in {logits[j] : j \in seg(g)} :
                       \A j \in seg(g) : logits[j] <= m
        e == [i \in DOMAIN logits |-> Exp(logits[i] - maxs(ids[i]))]
        sums(g) == RSumTo([i \in DOMAIN logits |->
                              IF ids[i] = g THEN e[i] ELSE RZero], Len0(logits))
    IN  [i \in DOMAIN logits |-> RDiv(e[i], RAdd(sums(ids[i]), ROne))]

\* jraph.partition_softmax(logits, n_partitions, sum_n_node): a softmax
\* within each segment of the node array
partition_softmax(logits, n_node, sum_n_node) ==
    LET ids == Repeat(Arange(Len0(n_node)), n_node, sum_n_node)
        seg(g) == {j \in DOMAIN logits : ids[j] = g}
        maxs(g) == CHOOSE m \in {logits[j] : j \in seg(g)} :
                       \A j \in seg(g) : logits[j] <= m
        e == [i \in DOMAIN logits |-> Exp(logits[i] - maxs(ids[i]))]
        sums(g) == RSumTo([i \in DOMAIN logits |->
                              IF ids[i] = g THEN e[i] ELSE RZero], Len0(logits))
    IN  [i \in DOMAIN logits |-> RDiv(e[i], sums(ids[i]))]

----------------------------------------------------------------------------
(* The input batches.                                                      *)

\* the node counts of the well-formed batches: 1..MaxGraphs graphs, every
\* graph with at least one node, at most MaxNodes nodes in all
NodeCounts ==
    UNION {{n \in [0..(G - 1) -> 1..MaxNodes] : Sum(n) <= MaxNodes} :
               G \in 1..MaxGraphs}

\* the k-th smallest element of a set of integers, k from 0
Kth(S, k) == CHOOSE x \in S : Cardinality({y \in S : y < x}) = k

\* the batch with the given node counts, species and target species: each
\* graph is a chain, with a directed edge in both directions between
\* consecutive nodes of the same graph; node i sits at coordinate i
MakeGraphs(n_node, species, target_species) ==
    LET num_nodes == Len0(species)
        ids == Repeat(Arange(Len0(n_node)), n_node, num_nodes)
        J == {j \in 0..(num_nodes - 2) : ids[j] = ids[j + 1]}
        m == Cardinality(J)
    IN  [ nodes |-> [ species |-> species, positions |-> Arange(num_nodes) ],
          senders |-> [k \in 0..(2 * m - 1) |->
                          IF k < m THEN Kth(J, k) ELSE Kth(J, k - m) + 1],
          receivers |-> [k \in 0..(2 * m - 1) |->
                          IF k < m THEN Kth(J, k) + 1 ELSE Kth(J, k - m)],
          n_node |-> n_node,
          globals |-> [ target_species |-> target_species ] ]

\* the well-formed batches of the model
Batches ==
    UNION {{MakeGraphs(n, sp, [g \in DOMAIN n |-> sp[SumTo(n, g)]]) :
               sp \in [0..(Sum(n) - 1) -> 0..MaxSpecies]} : n \in NodeCounts}

\* the training batches: every graph also carries its stop flag in globals
TrainBatches ==
    UNION {{[b EXCEPT !.globals =
                [ target_species |-> b.globals.target_species,
                  stop |-> f ]] : f \in [DOMAIN b.n_node -> BOOLEAN]} :
               b \in Batches}

\* the weights of the heads: the focus layer's weight and the element the
\* species layer favours
Params == [focus_w : 1..MaxWeight, species_k : 0..MaxWeight]

\* the key hk.next_rng_key() returns, the root of the pass's keys
Seed == <<0>>

\* the generator states a caller may hand to a call
Seeds == {Seed, <<1>>}

----------------------------------------------------------------------------
(* The helpers and the heads of src/models.py.                             *)

\* get_first_node_indices without the shift: the running sums themselves
get_first_node_indices_unshifted(g) == Cumsum(g.n_node)

\* models.get_first_node_indices
get_first_node_indices(g) ==
    LET c == Cumsum(g.n_node)
    IN  [i \in DOMAIN g.n_node |-> IF i = 0 THEN 0 ELSE c[i - 1]]

\* the keys segment_sample gives to a PRNG primitive, in order
segment_sample_keys(num_segments, rng) ==
    <<[key |-> rng, op |-> "split", var |-> "focus_rng"]>> \o
    [i \in 1..num_segments |->
        [key |-> split(rng, num_segments)[i - 1], op |-> "choice",
         var |-> "rngs"]]

\* segment_sample whose mask ignores the segment asked for
segment_sample_first_segment(probabilities, segment_ids, num_segments, rng, bits) ==
    LET node_indices == Arange(Len0(segment_ids))
        rngs == split(rng, num_segments)
    IN  [i \in 0..(num_segments - 1) |->
            choice(bits[rngs[i]], node_indices,
                   [j \in DOMAIN probabilities |->
                       IF segment_ids[j] = 0 THEN probabilities[j]
                       ELSE RZero])]

\* models.segment_sample; bits maps a key to the level of its uniform number
segment_sample(probabilities, segment_ids, num_segments, rng, bits) ==
    LET node_indices == Arange(Len0(segment_ids))
        rngs == split(rng, num_segments)
        sample_for_segment(key, i) ==
            choice(bits[key], node_indices,
                   [j \in DOMAIN probabilities |->
                       IF i = segment_ids[j] THEN probabilities[j] ELSE RZero])
    IN  [i \in 0..(num_segments - 1) |-> sample_for_segment(rngs[i], i)]

\* MACE.node_embeddings: the relative vectors of the edges are gathered
\* from the positions, and the encoder (an external library) maps vectors,
\* species, senders and receivers to one feature per node.  The encoder is
\* stood in for by one round of message passing on scalar features: every
\* edge carries a message that depends on the length of its vector and on
\* the species of its sender, the messages are summed at the receivers and
\* scale the node's species, and the result is quantised to NumEmbLevels
\* levels.
node_embeddings(g) ==
    LET vectors == [e \in DOMAIN g.senders |->
                       Gather(g.nodes.positions, g.receivers[e])
                       - Gather(g.nodes.positions, g.senders[e])]
        species == g.nodes.species
        msg(e) == Abs(vectors[e]) * Gather(species, g.senders[e])
        agg(i) == Sum([e \in DOMAIN g.senders |->
                          IF g.receivers[e] = i THEN msg(e) ELSE 0])
    IN  [i \in DOMAIN species |->
            (species[i] * (1 + agg(i))) % NumEmbLevels]

\* MACE.focus_logits: a linear layer on every node's scalar features
focus_logits(p, emb) == [i \in DOMAIN emb |-> p.focus_w * emb[i]]

\* MACE.target_species_logits: one logit per element for every focus node
target_species_logits(p, focus_node_embeddings) ==
    [g \in DOMAIN focus_node_embeddings |->
        [s \in 0..(NUM_ELEMENTS - 1) |->
            IF s = p.species_k THEN focus_node_embeddings[g] ELSE 0]]

\* MACE.target_position: the coefficients computed from the product of the
\* embedding of the target species and the embedding of the focus node
target_position(focus_node_embeddings, target_species) ==
    [g \in DOMAIN focus_node_embeddings |->
        (Gather(Arange(NUM_ELEMENTS), target_species[g]) + 1)
        * focus_node_embeddings[g]]

----------------------------------------------------------------------------
(* The forward pass.                                                       *)

\* the locals of a pass before any of them is assigned
NoLocals ==
    [ rng |-> NoValue, focus_rng |-> NoValue, species_rng |-> NoValue,
      num_nodes |-> NoValue, num_graphs |-> NoValue,
      node_embeddings |-> NoValue, focus_logits |-> NoValue,
      focus_probs |-> NoValue, segment_ids |-> NoValue,
      focus_indices |-> NoValue, focus_node_embeddings |-> NoValue,
      target_species_logits |-> NoValue, target_species_probs |-> NoValue,
      target_species |-> NoValue, position_coeffs |-> NoValue ]

\* the oracles that agree with bits and also fix a level for the given keys
Extensions(bits, keys) ==
    LET fresh == keys \ DOMAIN bits
    IN  {[k \in DOMAIN bits \cup fresh |->
             IF k \in DOMAIN bits THEN bits[k] ELSE f[k]] :
             f \in [fresh -> 0..(NumLevels - 1)]}

Range(a) == {a[i] : i \in DOMAIN a}

Init ==
    /\ graphs \in Batches
    /\ params \in Params
    /\ run_in_evaluation_mode \in BOOLEAN
    /\ hk_key = Seed
    /\ uniform = << >>
    /\ pc = "call"
    /\ loc = NoLocals
    /\ consumed = << >>
    /\ stages = << >>
    /\ out = NoValue
    /\ calls = << >>
    /\ config = NoValue

\* MACE.__call__ that ignores the mode flag and always samples
CallEvaluationAlways ==
    /\ pc = "call"
    /\ pc' = "eval_begin"
    /\ UNCHANGED <<config, graphs, params, run_in_evaluation_mode, hk_key,
                   uniform, loc, consumed, stages, out, calls>>

\* MACE.__call__: the mode flag selects the pass
Call ==
    /\ pc = "call"
    /\ pc' = IF run_in_evaluation_mode THEN "eval_begin" ELSE "train"
    /\ UNCHANGED <<config, graphs, params, run_in_evaluation_mode, hk_key,
                   uniform,
                   loc, consumed, stages, out, calls>>

\* get_training_predictions with the species head and the position head
\* evaluated only for the graphs whose stop flag is not set
get_training_predictions_gated ==
    /\ pc = "train"
    /\ LET emb == node_embeddings(graphs)
           logits == focus_logits(params, emb)
           focus_node_indices == get_first_node_indices(graphs)
           live == {g \in DOMAIN focus_node_indices :
                       ~("stop" \in DOMAIN graphs.globals
                         /\ graphs.globals.stop[g])}
           true_focus_node_embeddings ==
               [g \in live |-> Gather(emb, focus_node_indices[g])]
           species_logits ==
               target_species_logits(params, true_focus_node_embeddings)
           coeffs == target_position(true_focus_node_embeddings,
                                     graphs.globals.target_species)
       IN  /\ loc' = [loc EXCEPT !.node_embeddings = emb,
                                 !.focus_logits = logits,
                                 !.focus_indices = focus_node_indices,
                                 !.focus_node_embeddings =
                                     true_focus_node_embeddings,
                                 !.target_species_logits = species_logits,
                                 !.position_coeffs = coeffs]
           /\ out' = [ focus_logits |-> logits,
                       target_species_logits |-> species_logits,
                       position_coeffs |-> coeffs ]
    /\ stages' = stages \o <<"embed", "focus", "species", "position">>
    /\ pc' = "return"
    /\ UNCHANGED <<config, graphs, params, run_in_evaluation_mode, hk_key,
                   uniform, consumed, calls>>

\* MACE.get_training_predictions, the whole teacher-forced pass
get_training_predictions ==
    /\ pc = "train"
    /\ LET emb == node_embeddings(graphs)
           logits == focus_logits(params, emb)
           focus_node_indices == get_first_node_indices(graphs)
           true_focus_node_embeddings ==
               [g \in DOMAIN focus_node_indices |->
                   Gather(emb, focus_node_indices[g])]
           species_logits ==
               target_species_logits(params, true_focus_node_embeddings)
           coeffs == target_position(true_focus_node_embeddings,
                                     graphs.globals.target_species)
       IN  /\ loc' = [loc EXCEPT !.node_embeddings = emb,
                                 !.focus_logits = logits,
                                 !.focus_indices = focus_node_indices,
                                 !.focus_node_embeddings =
                                     true_focus_node_embeddings,
                                 !.target_species_logits = species_logits,
                                 !.position_coeffs = coeffs]
           /\ out' = [ focus_logits |-> logits,
                       target_species_logits |-> species_logits,
                       position_coeffs |-> coeffs ]
    /\ stages' = stages \o <<"embed", "focus", "species", "position">>
    /\ pc' = "return"
    /\ UNCHANGED <<config, graphs, params, run_in_evaluation_mode, hk_key,
                   uniform,
                   consumed, calls>>

\* EvalFocusProbs taking its key from a generator shared by all calls
EvalFocusProbsSharedGenerator ==
    /\ pc = "eval_begin"
    /\ LET num_nodes == Len0(graphs.nodes.positions)
           num_graphs == Len0(graphs.n_node)
           emb == node_embeddings(graphs)
           logits == focus_logits(params, emb)
       IN  loc' = [loc EXCEPT !.rng = Append(hk_key, Len(calls)),
                              !.num_nodes = num_nodes,
                              !.num_graphs = num_graphs,
                              !.node_embeddings = emb,
                              !.focus_logits = logits,
                              !.focus_probs =
                                  partition_softmax(logits, graphs.n_node,
                                                    num_nodes)]
    /\ stages' = stages \o <<"embed">>
    /\ pc' = "sample_focus"
    /\ UNCHANGED <<config, graphs, params, run_in_evaluation_mode, hk_key,
                   uniform,
                   consumed, out, calls>>

\* get_evaluation_predictions, lines 626-636: the key, the sizes, the node
\* embeddings and the focus probabilities
EvalFocusProbs ==
    /\ pc = "eval_begin"
    /\ LET num_nodes == Len0(graphs.nodes.positions)
           num_graphs == Len0(graphs.n_node)
           emb == node_embeddings(graphs)
           logits == focus_logits(params, emb)
       IN  loc' = [loc EXCEPT !.rng = hk_key,
                              !.num_nodes = num_nodes,
                              !.num_graphs = num_graphs,
                              !.node_embeddings = emb,
                              !.focus_logits = logits,
                              !.focus_probs =
                                  partition_softmax(logits, graphs.n_node,
                                                    num_nodes)]
    /\ stages' = stages \o <<"embed">>
    /\ pc' = "sample_focus"
    /\ UNCHANGED <<config, graphs, params, run_in_evaluation_mode, hk_key,
                   uniform,
                   consumed, out, calls>>

\* get_evaluation_predictions, lines 638-648: the focus node of every graph
\* is sampled and its embedding is taken
EvalSampleFocus ==
    /\ pc = "sample_focus"
    /\ LET keys == split(loc.rng, 2)
           rng == keys[0]
           focus_rng == keys[1]
           segment_ids == Repeat(Arange(loc.num_graphs), graphs.n_node,
                                 loc.num_nodes)
       IN  \E bits \in Extensions(uniform,
                                  Range(split(focus_rng, loc.num_graphs))) :
             LET focus_indices ==
                     segment_sample(loc.focus_probs, segment_ids,
                                    loc.num_graphs, focus_rng, bits)
             IN  /\ uniform' = bits
                 /\ loc' = [loc EXCEPT
                              !.rng = rng,
                              !.focus_rng = focus_rng,
                              !.segment_ids = segment_ids,
                              !.focus_indices = focus_indices,
                              !.focus_node_embeddings =
                                  [g \in DOMAIN focus_indices |->
                                      Gather(loc.node_embeddings,
                                             focus_indices[g])]]
                 /\ consumed' = consumed
                        \o <<[key |-> loc.rng, op |-> "split",
                              var |-> "rng"]>>
                        \o segment_sample_keys(loc.num_graphs, focus_rng)
    /\ stages' = stages \o <<"focus">>
    /\ pc' = "species_logits"
    /\ UNCHANGED <<config, graphs, params, run_in_evaluation_mode, hk_key,
                   out, calls>>

\* EvalSpeciesLogits run before the focus is sampled, on the first nodes
EvalSpeciesLogitsEarly ==
    /\ pc = "sample_focus"
    /\ loc.target_species_logits = NoValue
    /\ LET first == get_first_node_indices(graphs)
           logits == target_species_logits(params,
                         [g \in DOMAIN first |->
                             Gather(loc.node_embeddings, first[g])])
       IN  loc' = [loc EXCEPT !.target_species_logits = logits,
                              !.target_species_probs =
                                  [g \in DOMAIN logits |-> softmax(logits[g])]]
    /\ UNCHANGED <<config, graphs, params, run_in_evaluation_mode, hk_key,
                   uniform,
                   pc, consumed, stages, out, calls>>

\* get_evaluation_predictions, lines 650-652: the species logits of the
\* sampled focus nodes and their softmax
EvalSpeciesLogits ==
    /\ pc = "species_logits"
    /\ LET logits == target_species_logits(params, loc.focus_node_embeddings)
       IN  loc' = [loc EXCEPT !.target_species_logits = logits,
                              !.target_species_probs =
                                  [g \in DOMAIN logits |-> softmax(logits[g])]]
    /\ pc' = "sample_species"
    /\ UNCHANGED <<config, graphs, params, run_in_evaluation_mode, hk_key,
                   uniform,
                   consumed, stages, out, calls>>

\* EvalSampleSpecies without its own split: the focus key is used again
EvalSampleSpeciesReuse ==
    /\ pc = "sample_species"
    /\ LET species_rng == loc.focus_rng
           species_rngs == split(species_rng, loc.num_graphs)
       IN  \E bits \in Extensions(uniform, Range(species_rngs)) :
             /\ uniform' = bits
             /\ loc' = [loc EXCEPT
                          !.species_rng = species_rng,
                          !.target_species =
                              [g \in DOMAIN species_rngs |->
                                  choice_n(bits[species_rngs[g]],
                                           NUM_ELEMENTS,
                                           loc.target_species_probs[g])]]
             /\ consumed' = consumed
                    \o <<[key |-> species_rng, op |-> "split",
                          var |-> "species_rng"]>>
                    \o [i \in 1..loc.num_graphs |->
                           [key |-> species_rngs[i - 1], op |-> "choice",
                            var |-> "species_rngs"]]
    /\ stages' = stages \o <<"species">>
    /\ pc' = "position"
    /\ UNCHANGED <<config, graphs, params, run_in_evaluation_mode, hk_key,
                   out, calls>>

\* EvalSampleSpecies drawing every graph's species under the first graph's
\* probabilities
EvalSampleSpeciesFirstRow ==
    /\ pc = "sample_species"
    /\ LET keys == split(loc.rng, 2)
           rng == keys[0]
           species_rng == keys[1]
           species_rngs == split(species_rng, loc.num_graphs)
       IN  \E bits \in Extensions(uniform, Range(species_rngs)) :
             /\ uniform' = bits
             /\ loc' = [loc EXCEPT
                          !.rng = rng,
                          !.species_rng = species_rng,
                          !.target_species =
                              [g \in DOMAIN species_rngs |->
                                  choice_n(bits[species_rngs[g]],
                                           NUM_ELEMENTS,
                                           loc.target_species_probs[0])]]
             /\ consumed' = consumed
                    \o <<[key |-> loc.rng, op |-> "split", var |-> "rng"],
                         [key |-> species_rng, op |-> "split",
                          var |-> "species_rng"]>>
                    \o [i \in 1..loc.num_graphs |->
                           [key |-> species_rngs[i - 1], op |-> "choice",
                            var |-> "species_rngs"]]
    /\ stages' = stages \o <<"species">>
    /\ pc' = "position"
    /\ UNCHANGED <<config, graphs, params, run_in_evaluation_mode, hk_key,
                   out, calls>>

\* EvalSampleSpecies that also stores the sampled species in the globals of
\* the input batch
EvalSampleSpeciesInPlace ==
    /\ pc = "sample_species"
    /\ LET keys == split(loc.rng, 2)
           rng == keys[0]
           species_rng == keys[1]
           species_rngs == split(species_rng, loc.num_graphs)
       IN  \E bits \in Extensions(uniform, Range(species_rngs)) :
             LET sampled == [g \in DOMAIN species_rngs |->
                                choice_n(bits[species_rngs[g]], NUM_ELEMENTS,
                                         loc.target_species_probs[g])]
             IN  /\ uniform' = bits
                 /\ loc' = [loc EXCEPT !.rng = rng,
                                       !.species_rng = species_rng,
                                       !.target_species = sampled]
                 /\ graphs' = [graphs EXCEPT
                                  !.globals.target_species = sampled]
                 /\ consumed' = consumed
                        \o <<[key |-> loc.rng, op |-> "split",
                              var |-> "rng"],
                             [key |-> species_rng, op |-> "split",
                              var |-> "species_rng"]>>
                        \o [i \in 1..loc.num_graphs |->
                               [key |-> species_rngs[i - 1], op |-> "choice",
                                var |-> "species_rngs"]]
    /\ stages' = stages \o <<"species">>
    /\ pc' = "position"
    /\ UNCHANGED <<config, params, run_in_evaluation_mode, hk_key, out,
                   calls>>

\* get_evaluation_predictions, lines 654-658: the target species of every
\* graph is sampled
EvalSampleSpecies ==
    /\ pc = "sample_species"
    /\ LET keys == split(loc.rng, 2)
           rng == keys[0]
           species_rng == keys[1]
           species_rngs == split(species_rng, loc.num_graphs)
       IN  \E bits \in Extensions(uniform, Range(species_rngs)) :
             /\ uniform' = bits
             /\ loc' = [loc EXCEPT
                          !.rng = rng,
                          !.species_rng = species_rng,
                          !.target_species =
                              [g \in DOMAIN species_rngs |->
                                  choice_n(bits[species_rngs[g]],
                                           NUM_ELEMENTS,
                                           loc.target_species_probs[g])]]
             /\ consumed' = consumed
                    \o <<[key |-> loc.rng, op |-> "split", var |-> "rng"],
                         [key |-> species_rng, op |-> "split",
                          var |-> "species_rng"]>>
                    \o [i \in 1..loc.num_graphs |->
                           [key |-> species_rngs[i - 1], op |-> "choice",
                            var |-> "species_rngs"]]
    /\ stages' = stages \o <<"species">>
    /\ pc' = "position"
    /\ UNCHANGED <<config, graphs, params, run_in_evaluation_mode, hk_key,
                   out, calls>>

\* EvalTargetPosition conditioned on the batch's target species, as in
\* training, instead of the species just sampled
EvalTargetPositionTeacherForced ==
    /\ pc = "position"
    /\ LET coeffs == target_position(loc.focus_node_embeddings,
                                     graphs.globals.target_species)
       IN  /\ loc' = [loc EXCEPT !.position_coeffs = coeffs]
           /\ out' = [ focus_logits |-> loc.focus_logits,
                       focus_indices |-> loc.focus_indices,
                       target_species_logits |-> loc.target_species_logits,
                       position_coeffs |-> coeffs,
                       target_species |-> loc.target_species ]
    /\ stages' = stages \o <<"position">>
    /\ pc' = "return"
    /\ UNCHANGED <<config, graphs, params, run_in_evaluation_mode, hk_key,
                   uniform, consumed, calls>>

\* get_evaluation_predictions, lines 660-671: the position coefficients and
\* the returned EvaluationPredictions
EvalTargetPosition ==
    /\ pc = "position"
    /\ LET coeffs == target_position(loc.focus_node_embeddings,
                                     loc.target_species)
       IN  /\ loc' = [loc EXCEPT !.position_coeffs = coeffs]
           /\ out' = [ focus_logits |-> loc.focus_logits,
                       focus_indices |-> loc.focus_indices,
                       target_species_logits |-> loc.target_species_logits,
                       position_coeffs |-> coeffs,
                       target_species |-> loc.target_species ]
    /\ stages' = stages \o <<"position">>
    /\ pc' = "return"
    /\ UNCHANGED <<config, graphs, params, run_in_evaluation_mode, hk_key,
                   uniform,
                   consumed, calls>>

\* the pass returns to its caller, which records the call
Return ==
    /\ pc = "return"
    /\ calls' = Append(calls, [ graphs |-> graphs, params |-> params,
                                mode |-> run_in_evaluation_mode,
                                key |-> hk_key,
                                focus_probs |-> loc.focus_probs,
                                target_species_probs |->
                                    loc.target_species_probs,
                                out |-> out ])
    /\ pc' = "done"
    /\ UNCHANGED <<config, graphs, params, run_in_evaluation_mode, hk_key,
                   uniform,
                   loc, consumed, stages, out>>

\* the caller runs the model a second time with the same generator state
\* on the same batch
Replay ==
    /\ pc = "done"
    /\ Len(calls) = 1
    /\ pc' = "call"
    /\ loc' = NoLocals
    /\ consumed' = << >>
    /\ stages' = << >>
    /\ out' = NoValue
    /\ UNCHANGED <<config, graphs, params, run_in_evaluation_mode, hk_key,
                   uniform,
                   calls>>

\* the caller runs the model a second time with the same generator state
\* on a batch that differs from the first in the species of the first node
\* (a node of the first graph) only
Perturb ==
    /\ pc = "done"
    /\ Len(calls) = 1
    /\ graphs' \in {b \in Batches :
                      /\ b.n_node = graphs.n_node
                      /\ b.nodes.species[0] # graphs.nodes.species[0]
                      /\ \A j \in DOMAIN b.nodes.species :
                             j # 0 => b.nodes.species[j]
                                          = graphs.nodes.species[j]}
    /\ pc' = "call"
    /\ loc' = NoLocals
    /\ consumed' = << >>
    /\ stages' = << >>
    /\ out' = NoValue
    /\ UNCHANGED <<config, params, run_in_evaluation_mode, hk_key, uniform, calls>>

\* the caller runs the training pass a second time on the same batch with
\* another generator state
Reseed ==
    /\ pc = "done"
    /\ Len(calls) = 1
    /\ ~run_in_evaluation_mode
    /\ hk_key' \in Seeds \ {hk_key}
    /\ pc' = "call"
    /\ loc' = NoLocals
    /\ consumed' = << >>
    /\ stages' = << >>
    /\ out' = NoValue
    /\ UNCHANGED <<config, graphs, params, run_in_evaluation_mode, uniform,
                   calls>>

\* e3nn.Irreps: a sequence of chunks, each a multiplicity mul of the
\* irreducible representation of degree l and parity p
Irreps_dim(irreps) ==
    Sum([k \in 0..(Len(irreps) - 1) |->
            irreps[k + 1].mul * (2 * irreps[k + 1].l + 1)])

Irreps_num_irreps(irreps) ==
    Sum([k \in 0..(Len(irreps) - 1) |-> irreps[k + 1].mul])

\* e3nn.Irreps(f"{n}x0e")
Irreps_scalars(n) == <<[mul |-> n, l |-> 0, p |-> 1]>>

\* e3nn.s2_irreps(lmax, p_val, p_arg): one irrep of every degree up to
\* lmax, of parity p_val * p_arg^l
s2_irreps(lmax, p_val, p_arg) ==
    [k \in 1..(lmax + 1) |->
        [mul |-> 1, l |-> k - 1,
         p |-> p_val * (IF (k - 1) % 2 = 0 THEN 1 ELSE p_arg)]]

\* n * irreps: every multiplicity is multiplied by n
Irreps_times(n, irreps) ==
    [k \in DOMAIN irreps |-> [irreps[k] EXCEPT !.mul = n * @]]

\* Irreps.filter(keep): the chunks whose irrep occurs in keep
Irreps_filter(irreps, keep) ==
    LET kept(x) == \E k \in DOMAIN keep :
                       /\ keep[k].mul > 0
                       /\ keep[k].l = x.l
                       /\ keep[k].p = x.p
    IN  SelectSeq(irreps, kept)

\* the irreps of the output of e3nn.haiku.Linear(irreps_out,
\* force_irreps_out=force) on an input of irreps irreps_in: unless forced,
\* the output keeps only the irreps that occur in the input
Linear(irreps_out, force_irreps_out, irreps_in) ==
    IF force_irreps_out THEN irreps_out
    ELSE Irreps_filter(irreps_out, irreps_in)

\* IrrepsArray.mul_to_axis(factor) on an array of leading shape shape:
\* a new axis of length factor, every multiplicity divided by factor
\* (every multiplicity is a multiple of factor at the calls modelled)
mul_to_axis(x, factor) ==
    [ shape |-> Append(x.shape, factor),
      irreps |-> [k \in DOMAIN x.irreps |->
                     [x.irreps[k] EXCEPT !.mul = @ \div factor]] ]

\* e3nn.gate: the last scalars, one per non-scalar irrep, are consumed as
\* gates of the non-scalar irreps; the other scalars are kept
gate(x) ==
    LET scalars == SelectSeq(x.irreps, LAMBDA c : c.l = 0)
        gated == SelectSeq(x.irreps, LAMBDA c : c.l > 0)
        extra == Irreps_num_irreps(scalars) - Irreps_num_irreps(gated)
    IN  [ shape |-> x.shape,
          irreps |-> IF Len(gated) = 0 THEN x.irreps
                     ELSE Irreps_scalars(extra) \o gated ]

\* IrrepsArray.shape: the leading axes and the dimension of the irreps
array_shape(x) == Append(x.shape, Irreps_dim(x.irreps))

\* the irreps of the focus node embeddings given to a head: the irreps of
\* the sphere up to degree lmax, MaxChannels of each
focus_irreps(lmax) == Irreps_times(MaxChannels, s2_irreps(lmax, 1, 0 - 1))

\* the outcome of a call: the exception raised, if any, and the shapes of
\* the arrays returned
Raised(exception) == [ raised |-> exception, shapes |-> << >> ]
Returned(shapes) == [ raised |-> "", shapes |-> shapes ]

\* the constructor arguments of a position head
Configs ==
    {c \in [ position_coeffs_lmax : 0..MaxLmax,
             num_channels : 1..MaxChannels,
             num_radii : 1..MaxRadii,
             min_radius : 0..MaxRadius,
             max_radius : 0..MaxRadius,
             apply_gate : BOOLEAN ] : c.min_radius < c.max_radius}

\* create_radii with the maximum radius left out of the grid
create_radii_open(self) ==
    linspace_open(self.min_radius, self.max_radius, self.num_radii)

\* TargetPositionPredictor.create_radii and
\* FactorizedTargetPositionPredictor.create_radii, which are the same
create_radii(self) ==
    linspace(self.min_radius, self.max_radius, self.num_radii)

\* a caller asks a position head for its candidate radii
CreateRadii ==
    /\ pc = "call"
    /\ config # NoValue
    /\ out' = [ fn |-> "create_radii", value |-> create_radii(config) ]
    /\ pc' = "done"
    /\ UNCHANGED <<config, graphs, params, run_in_evaluation_mode, hk_key,
                   uniform, loc, consumed, stages, calls>>

\* TargetPositionPredictor.__call__ on focus node embeddings of irreps
\* irreps_in for num_graphs graphs; debug tells whether assert statements
\* are executed
TargetPositionPredictor_call(self, irreps_in, num_graphs, debug) ==
    LET s2 == s2_irreps(self.position_coeffs_lmax, 1, 0 - 1)
        irreps == IF self.apply_gate
                  THEN Irreps_scalars(self.position_coeffs_lmax) \o s2
                  ELSE s2
        linear == [ shape |-> <<num_graphs>>,
                    irreps |-> Linear(Irreps_times(self.num_radii
                                                   * self.num_channels,
                                                   irreps),
                                      TRUE, irreps_in) ]
        split_axes == mul_to_axis(mul_to_axis(linear, self.num_channels),
                                  self.num_radii)
        position_coeffs == IF self.apply_gate THEN gate(split_axes)
                           ELSE split_axes
    IN  IF debug /\ array_shape(position_coeffs)
                       # <<num_graphs, self.num_channels, self.num_radii,
                           Irreps_dim(s2)>>
        THEN Raised("AssertionError")
        ELSE Returned(<<array_shape(position_coeffs)>>)

\* FactorizedTargetPositionPredictor.__call__
FactorizedTargetPositionPredictor_call(self, irreps_in, num_graphs, debug) ==
    LET radial == [ shape |-> <<num_graphs>>,
                    irreps |-> Linear(Irreps_scalars(self.num_radii), FALSE,
                                      irreps_in) ]
        \* the multi-layer perceptron ends in a layer of num_radii neurons
        radial_logits == Append(radial.shape, self.num_radii)
        s2 == s2_irreps(self.position_coeffs_lmax, 1, 0 - 1)
        irreps == IF self.apply_gate
                  THEN Irreps_scalars(self.position_coeffs_lmax) \o s2
                  ELSE s2
        linear == [ shape |-> <<num_graphs>>,
                    irreps |-> Linear(Irreps_times(self.num_channels, irreps),
                                      TRUE, irreps_in) ]
        split_axis == mul_to_axis(linear, self.num_channels)
        log_angular_coeffs == IF self.apply_gate THEN gate(split_axis)
                              ELSE split_axis
    IN  IF debug /\ radial_logits # <<num_graphs, self.num_radii>>
        THEN Raised("AssertionError")
        ELSE IF debug /\ array_shape(log_angular_coeffs)
                             # <<num_graphs, self.num_channels,
                                 Irreps_dim(s2)>>
        THEN Raised("AssertionError")
        ELSE Returned(<<radial_logits, array_shape(log_angular_coeffs)>>)

\* MACE.target_position, lines 560-592, on shapes: the linear layer is not
\* forced to produce the irreps asked for
MACE_target_position(self, irreps_in, num_graphs, debug) ==
    LET irreps == s2_irreps(self.position_coeffs_lmax, 1, 0 - 1)
        linear == [ shape |-> <<num_graphs>>,
                    irreps |-> Linear(Irreps_times(Len0(RADII), irreps),
                                      FALSE, irreps_in) ]
        position_coeffs == mul_to_axis(linear, Len0(RADII))
        num_radii == Len0(RADII)
    IN  IF debug /\ array_shape(position_coeffs)
                       # <<num_graphs, num_radii, Irreps_dim(irreps)>>
        THEN Raised("AssertionError")
        ELSE Returned(<<array_shape(position_coeffs)>>)

\* what a Python function returns when it ends without a return statement
None == << >>

\* hk.nets.MLP(output_sizes) on an array of the given shape: the last axis
\* becomes the size of the last layer
MLP(output_size, shape) ==
    [k \in DOMAIN shape |-> IF k = Len(shape) THEN output_size ELSE shape[k]]

\* the largest number of interaction blocks of a GSchNet
MaxInteractions == 1

\* GSchNet.node_embeddings, lines 421-431, on shapes: every interaction
\* block builds jraph.GraphNetwork(update_edge_fn=...) without the required
\* update_node_fn (385-387), which raises TypeError
GSchNet_node_embeddings(num_nodes, latent_size, num_interactions) ==
    IF num_interactions >= 1 THEN Raised("TypeError")
    ELSE Returned(<<num_nodes, latent_size>>)

\* GSchNet.target_species_logits, lines 433-445, on shapes: the exception
\* it raises.  e3nn.scatter_sum takes only the data positionally, so line
\* 444 raises TypeError when the assertion of line 443 is not executed
GSchNet_target_species_logits(num_nodes, num_graphs, latent_size, debug) ==
    LET all_species_embeddings == <<NUM_ELEMENTS, latent_size>>
        \* vmap over the nodes of the product of a (latent_size,) row with
        \* the (NUM_ELEMENTS, latent_size) table
        node_and_species_embeddings ==
            <<num_nodes>> \o all_species_embeddings
        species_logits == MLP(NUM_ELEMENTS, node_and_species_embeddings)
    IN  IF debug /\ species_logits # <<num_nodes, NUM_ELEMENTS>>
        THEN Raised("AssertionError")
        ELSE Raised("TypeError")

\* GSchNet.distance_logits, lines 448-456, on shapes
GSchNet_distance_logits(num_nodes, num_graphs, latent_size, debug) ==
    LET target_species_embeddings == <<num_graphs, latent_size>>
        node_and_target_species_embeddings ==
            <<num_nodes>> \o target_species_embeddings
        distance_logits == MLP(Len0(RADII),
                               node_and_target_species_embeddings)
    IN  IF debug /\ distance_logits # <<num_nodes, Len0(RADII)>>
        THEN Raised("AssertionError")
        ELSE Returned(distance_logits)

\* GSchNet.__call__, lines 459-467: the exception raised.  Line 462 reads
\* graphs.target_species, which a GraphsTuple does not have
GSchNet_call(num_nodes, num_graphs, latent_size, num_interactions, debug) ==
    LET embeddings ==
            GSchNet_node_embeddings(num_nodes, latent_size, num_interactions)
        species_logits ==
            GSchNet_target_species_logits(num_nodes, num_graphs,
                                          latent_size, debug)
    IN  IF embeddings.raised # "" THEN embeddings
        ELSE IF species_logits.raised # "" THEN species_logits
        ELSE Raised("AttributeError")

\* a caller runs the GSchNet model on a batch
CallGSchNet ==
    /\ pc = "call"
    /\ config # NoValue
    /\ \E num_graphs \in 1..MaxGraphs, latent_size \in 1..MaxChannels,
          num_interactions \in 0..MaxInteractions, debug \in BOOLEAN :
         \E num_nodes \in num_graphs..MaxNodes :
           out' = [ fn |-> "GSchNet", num_graphs |-> num_graphs,
                    num_nodes |-> num_nodes, latent_size |-> latent_size,
                    num_interactions |-> num_interactions,
                    debug |-> debug,
                    value |-> GSchNet_call(num_nodes, num_graphs,
                                           latent_size, num_interactions,
                                           debug) ]
    /\ pc' = "done"
    /\ UNCHANGED <<config, graphs, params, run_in_evaluation_mode, hk_key,
                   uniform, loc, consumed, stages, calls>>

\* a caller runs the joint position head
CallTargetPositionPredictor ==
    /\ pc = "call"
    /\ config # NoValue
    /\ \E num_graphs \in 1..MaxGraphs, lmax \in 0..MaxLmax, debug \in BOOLEAN :
           out' = [ fn |-> "TargetPositionPredictor",
                    num_graphs |-> num_graphs, embedding_lmax |-> lmax,
                    debug |-> debug,
                    value |-> TargetPositionPredictor_call(
                                  config, focus_irreps(lmax), num_graphs,
                                  debug) ]
    /\ pc' = "done"
    /\ UNCHANGED <<config, graphs, params, run_in_evaluation_mode, hk_key,
                   uniform, loc, consumed, stages, calls>>

\* a caller runs the factorized position head
CallFactorizedTargetPositionPredictor ==
    /\ pc = "call"
    /\ config # NoValue
    /\ \E num_graphs \in 1..MaxGraphs, lmax \in 0..MaxLmax, debug \in BOOLEAN :
           out' = [ fn |-> "FactorizedTargetPositionPredictor",
                    num_graphs |-> num_graphs, embedding_lmax |-> lmax,
                    debug |-> debug,
                    value |-> FactorizedTargetPositionPredictor_call(
                                  config, focus_irreps(lmax), num_graphs,
                                  debug) ]
    /\ pc' = "done"
    /\ UNCHANGED <<config, graphs, params, run_in_evaluation_mode, hk_key,
                   uniform, loc, consumed, stages, calls>>

\* a caller runs the position head of MACE
CallTargetPosition ==
    /\ pc = "call"
    /\ config # NoValue
    /\ \E num_graphs \in 1..MaxGraphs, lmax \in 0..MaxLmax, debug \in BOOLEAN :
           out' = [ fn |-> "MACE.target_position",
                    num_graphs |-> num_graphs, embedding_lmax |-> lmax,
                    debug |-> debug,
                    value |-> MACE_target_position(
                                  config, focus_irreps(lmax), num_graphs,
                                  debug) ]
    /\ pc' = "done"
    /\ UNCHANGED <<config, graphs, params, run_in_evaluation_mode, hk_key,
                   uniform, loc, consumed, stages, calls>>

\* a batch is well formed when every species is in the vocabulary, every
\* edge index is a node index and the node counts add up to the node array
WellFormed(g) ==
    LET num_nodes == Len0(g.nodes.species)
    IN  /\ \A i \in DOMAIN g.nodes.species :
               g.nodes.species[i] \in 0..(NUM_ELEMENTS - 1)
        /\ \A i \in DOMAIN g.globals.target_species :
               g.globals.target_species[i] \in 0..(NUM_ELEMENTS - 1)
        /\ \A e \in DOMAIN g.senders :
               /\ g.senders[e] \in 0..(num_nodes - 1)
               /\ g.receivers[e] \in 0..(num_nodes - 1)
        /\ Sum(g.n_node) = num_nodes

\* the batches that break one precondition: a species or a target species
\* outside the vocabulary, an edge index outside the node range, or a node
\* count that does not match the node array
MalformedBatches ==
    UNION {
        {[b EXCEPT !.nodes.species[0] = NUM_ELEMENTS],
         [b EXCEPT !.globals.target_species[0] = NUM_ELEMENTS],
         [b EXCEPT !.n_node[0] = b.n_node[0] + 1 + Len0(b.nodes.species)]}
        \cup (IF Len0(b.senders) = 0 THEN {}
              ELSE {[b EXCEPT !.receivers[0] = Len0(b.nodes.species)],
                    [b EXCEPT !.senders[0] = 0 - 1 - Len0(b.nodes.species)]})
        : b \in Batches}

Next ==
    \/ Call
    \/ get_training_predictions
    \/ EvalFocusProbs
    \/ EvalSampleFocus
    \/ EvalSpeciesLogits
    \/ EvalSampleSpecies
    \/ EvalTargetPosition
    \/ Return

Spec == Init /\ [][Next]_vars

\* repeated passes on one batch, with fixed weights
InitReplay ==
    /\ Init
    /\ params = [focus_w |-> MaxWeight, species_k |-> 0]
    \* the species of the first node is free, the others alternate
    /\ \A j \in DOMAIN graphs.nodes.species :
           j # 0 => graphs.nodes.species[j] = j % (MaxSpecies + 1)

NextReplay ==
    \/ Call
    \/ get_training_predictions
    \/ EvalFocusProbs
    \/ EvalSampleFocus
    \/ EvalSpeciesLogits
    \/ EvalSampleSpecies
    \/ EvalTargetPosition
    \/ Return
    \/ Replay

SpecReplay == InitReplay /\ [][NextReplay]_vars

\* an evaluation pass and a second one on a perturbed batch
InitPerturb ==
    /\ InitReplay
    /\ run_in_evaluation_mode

NextPerturb ==
    \/ Call
    \/ EvalFocusProbs
    \/ EvalSampleFocus
    \/ EvalSpeciesLogits
    \/ EvalSampleSpecies
    \/ EvalTargetPosition
    \/ Return
    \/ Perturb

SpecPerturb == InitPerturb /\ [][NextPerturb]_vars

\* passes in either mode from any generator state
InitModes ==
    /\ graphs \in Batches
    /\ params = [focus_w |-> MaxWeight, species_k |-> 0]
    /\ run_in_evaluation_mode \in BOOLEAN
    /\ hk_key \in Seeds
    /\ uniform = << >>
    /\ pc = "call"
    /\ loc = NoLocals
    /\ consumed = << >>
    /\ stages = << >>
    /\ out = NoValue
    /\ calls = << >>
    /\ config = NoValue

NextModes ==
    \/ Call
    \/ get_training_predictions
    \/ EvalFocusProbs
    \/ EvalSampleFocus
    \/ EvalSpeciesLogits
    \/ EvalSampleSpecies
    \/ EvalTargetPosition
    \/ Return
    \/ Reseed

SpecModes == InitModes /\ [][NextModes]_vars

\* training passes on batches that carry stop flags
InitTrain ==
    /\ graphs \in TrainBatches
    /\ params \in Params
    /\ run_in_evaluation_mode = FALSE
    /\ hk_key = Seed
    /\ uniform = << >>
    /\ pc = "call"
    /\ loc = NoLocals
    /\ consumed = << >>
    /\ stages = << >>
    /\ out = NoValue
    /\ calls = << >>
    /\ config = NoValue

NextTrain ==
    \/ Call
    \/ get_training_predictions
    \/ Return

SpecTrain == InitTrain /\ [][NextTrain]_vars

\* the heads called on their own, outside a forward pass
InitHeads ==
    /\ config \in Configs
    /\ graphs = NoValue
    /\ params = NoValue
    /\ run_in_evaluation_mode = FALSE
    /\ hk_key = Seed
    /\ uniform = << >>
    /\ pc = "call"
    /\ loc = NoLocals
    /\ consumed = << >>
    /\ stages = << >>
    /\ out = NoValue
    /\ calls = << >>

NextHeads ==
    \/ CreateRadii
    \/ CallTargetPositionPredictor
    \/ CallFactorizedTargetPositionPredictor
    \/ CallTargetPosition
    \/ CallGSchNet

SpecHeads == InitHeads /\ [][NextHeads]_vars

-----------------------------------------------------------------------------
(* Functions of the analysis scripts, each called alone: config holds the  *)
(* arguments of the call and out what it returns.                          *)

\* the variables of a forward pass, which these calls leave alone
pass_vars == <<graphs, params, run_in_evaluation_mode, hk_key, uniform, loc,
               consumed, stages, calls>>

\* no forward pass is running
NoPass ==
    /\ graphs = NoValue
    /\ params = NoValue
    /\ run_in_evaluation_mode = FALSE
    /\ hk_key = Seed
    /\ uniform = << >>
    /\ loc = NoLocals
    /\ consumed = << >>
    /\ stages = << >>
    /\ calls = << >>

\* the smallest and the largest magnitude of an offset vector given in
\* hundredths
MinOffset == 50
MaxOffset == 210
\* the largest magnitude of an offset vector given as a power of two
MaxExponent == 20

\* A float32 number that is a whole multiple of 2^-24 and less than 2^23 is
\* written <<w, f>>, which stands for w + f / 2^24 with 0 <= f < 2^24.
\* Every float32 number from 1/2 to 2^23 is of this kind, and so are 0 and
\* the powers of two down to 2^-24; sums, differences and products of such
\* numbers are again whole multiples of 2^-24.
TwoTo24 == 16777216

F32Zero == <<0, 0>>

F32Less(x, y) == x[1] < y[1] \/ (x[1] = y[1] /\ x[2] < y[2])

RECURSIVE ulp(_)
\* the distance between neighbouring float32 numbers with whole part
\* w >= 1, in units of 2^-24; 1 for the numbers below 1
ulp(w) == IF w = 0 THEN 1 ELSE 2 * ulp(w \div 2)

\* the float32 number nearest to w + (f + num / den) / 2^24, where
\* 0 <= num < den; of two nearest ones the one with the even significand
round_float32(w, f, num, den) ==
    LET u == ulp(w)
        q == f \div u
        \* twice the part cut off, against the distance between neighbours
        excess == 2 * ((f % u) * den + num) - u * den
        up == excess > 0 \/ (excess = 0 /\ q % 2 = 1)
        g == (IF up THEN q + 1 ELSE q) * u
    IN  IF g = TwoTo24 THEN <<w + 1, 0>> ELSE <<w, g>>

\* the float32 number nearest to the rational q >= 0, for the magnitudes
\* tried: 0, a number of hundredths from 1/2 up, or a power of two
float32(q) ==
    LET m == q[1] % q[2]
    IN  round_float32(q[1] \div q[2], (m * TwoTo24) \div q[2],
                      (m * TwoTo24) % q[2], q[2])

\* a + b in float32
add_float32(a, b) ==
    LET f == a[2] + b[2]
    IN  round_float32(a[1] + b[1] + f \div TwoTo24, f % TwoTo24, 0, 1)

\* |a - b| in exact arithmetic
abs_sub(a, b) ==
    LET hi == IF F32Less(a, b) THEN b ELSE a
        lo == IF F32Less(a, b) THEN a ELSE b
    IN  IF hi[2] >= lo[2] THEN <<hi[1] - lo[1], hi[2] - lo[2]>>
        ELSE <<hi[1] - lo[1] - 1, hi[2] + TwoTo24 - lo[2]>>

\* |a - b| in float32
abs_sub_float32(a, b) ==
    LET d == abs_sub(a, b) IN round_float32(d[1], d[2], 0, 1)

\* i * x in float32, for a whole number i
mul_float32(i, x) ==
    LET p == i * x[2]
    IN  round_float32(i * x[1] + p \div TwoTo24, p % TwoTo24, 0, 1)

\* jnp.arange(start, stop, step) for numbers given in hundredths, as the
\* float32 array it is: the first value and the second one are the floats
\* nearest to start and to start + step, and value i is first + i * delta
\* in float32, where delta is the second value less the first
arange_float32(start, stop, step) ==
    LET n == (stop - start + step - 1) \div step
        first == float32(Rat(start, 100))
        second == float32(Rat(start + step, 100))
        delta == abs_sub_float32(second, first)
    IN  [i \in 0..(n - 1) |->
            IF i = 0 THEN first
            ELSE IF i = 1 THEN second
            ELSE add_float32(first, mul_float32(i, delta))]

\* the candidate radii as the float32 values the array RADII holds
RADII_float32 == arange_float32(75, 203, 2)

\* the magnitudes of the offset vectors tried: 0, the hundredths from
\* MinOffset to MaxOffset, and the powers of two from 2^-24 to 2^MaxExponent
Magnitudes ==
    {<<0, 1>>}
        \cup {Rat(x, 100) : x \in MinOffset..MaxOffset}
        \cup {<<2 ^ e, 1>> : e \in 0..MaxExponent}
        \cup {<<1, 2 ^ e>> : e \in 1..24}

\* the offset vectors tried: along an axis, in either direction; a
\* coordinate is a rational <<numerator, denominator>>
Offsets ==
    UNION {{ <<m, <<0, 1>>, <<0, 1>> >>, << <<0, 1>>, m, <<0, 1>> >>,
             << <<0, 1>>, <<0, 1>>, m>> } :
              m \in {<<s * x[1], x[2]>> : s \in {0 - 1, 1}, x \in Magnitudes}}

\* jnp.linalg.norm(v, axis=-1) of a float32 vector along an axis: the
\* square root of the square of its one coordinate, which is the absolute
\* value of the coordinate in round-to-nearest arithmetic
norm(v) ==
    LET along == {k \in 1..3 : v[k][1] # 0}
    IN  IF along = {} THEN F32Zero
        ELSE LET k == CHOOSE k \in along : TRUE
             IN  float32(<<Abs(v[k][1]), v[k][2]>>)

\* jnp.abs(a - x) for a float32 array a and a float32 scalar x
abs_diff(a, x) == [i \in DOMAIN a |-> abs_sub_float32(a[i], x)]

\* ndarray.argmin(): the first index of the smallest entry
argmin(a) ==
    CHOOSE i \in DOMAIN a :
        /\ \A j \in DOMAIN a : ~F32Less(a[j], a[i])
        /\ \A j \in DOMAIN a : j < i => F32Less(a[i], a[j])

\* get_plotly_traces_for_predictions picks the radius bin of the predicted
\* offset vector
MostLikelyRadius ==
    /\ pc = "call"
    /\ config # NoValue
    /\ LET radius == norm(config.position_vectors)
           most_likely_radius_index == argmin(abs_diff(RADII_float32, radius))
       IN  out' = [ fn |-> "most_likely_radius",
                    radius |-> radius,
                    index |-> most_likely_radius_index,
                    value |-> RADII_float32[most_likely_radius_index] ]
    /\ pc' = "done"
    /\ UNCHANGED <<config, pass_vars>>

InitRadius ==
    /\ config \in [ position_vectors : Offsets ]
    /\ pc = "call"
    /\ out = NoValue
    /\ NoPass

NextRadius == MostLikelyRadius

SpecRadius == InitRadius /\ [][NextRadius]_vars

\* the largest number of entries of a dictionary
MaxEntries == 2

\* a string is the sequence of its characters; the keys tried
Keys ==
    { <<"1">>, <<"0", "1">>, <<"1", "0">>, <<"a">>, <<"1", "a">> }

\* the values tried that are not dictionaries
Leaves == {"x", "y"}

\* a dictionary key: a string or an integer
StrKey(s) == [ is_int |-> FALSE, int |-> 0, str |-> s ]
IntKey(n) == [ is_int |-> TRUE, int |-> n, str |-> << >> ]

\* a dictionary value: a dictionary (the sequence of its items, in
\* insertion order) or something else
LeafVal(x) == [ is_dict |-> FALSE, leaf |-> x, items |-> << >> ]
DictVal(items) == [ is_dict |-> TRUE, leaf |-> "", items |-> items ]

\* the dictionaries with string keys from Keys, values from vals and at
\* most n entries
DictsOver(vals, n) ==
    UNION {{d \in [1..k -> {<<StrKey(s), v>> : s \in Keys, v \in vals}] :
                \A i, j \in 1..k : i # j => d[i][1] # d[j][1]} : k \in 0..n}

\* the dictionaries passed to cast_keys_as_int: their values are leaves or
\* dictionaries of leaves with at most one entry
Dictionaries ==
    LET leaves == {LeafVal(x) : x \in Leaves}
        nested == {DictVal(d) : d \in DictsOver(leaves, 1)}
    IN  DictsOver(leaves \cup nested, MaxEntries)

IsDigit(c) == c \in {"0", "1", "2", "3", "4", "5", "6", "7", "8", "9"}

DigitValue(c) ==
    CASE c = "0" -> 0 [] c = "1" -> 1 [] c = "2" -> 2 [] c = "3" -> 3
      [] c = "4" -> 4 [] c = "5" -> 5 [] c = "6" -> 6 [] c = "7" -> 7
      [] c = "8" -> 8 [] c = "9" -> 9

RECURSIVE decimal(_)
\* the number written by a string of decimal digits
decimal(s) ==
    IF s = << >> THEN 0
    ELSE 10 * decimal(SubSeq(s, 1, Len(s) - 1)) + DigitValue(s[Len(s)])

\* int(key) returns, for a string of digits and letters: it raises
\* ValueError otherwise
int_parses(s) == Len(s) >= 1 /\ \A i \in 1..Len(s) : IsDigit(s[i])

\* try: key = int(key) / except ValueError: pass
cast_key(key) ==
    IF key.is_int THEN key
    ELSE IF int_parses(key.str) THEN IntKey(decimal(key.str))
    ELSE key

\* casted_dictionary[key] = val on a dictionary in insertion order
setitem(d, key, val) ==
    IF \E i \in 1..Len(d) : d[i][1] = key
    THEN [i \in 1..Len(d) |-> IF d[i][1] = key THEN <<key, val>> ELSE d[i]]
    ELSE Append(d, <<key, val>>)

RECURSIVE cast_keys_as_int(_)
\* cast_keys_as_int: the loop over dictionary.items(), as the items before
\* the last one followed by the last one
cast_keys_as_int(dictionary) ==
    IF dictionary = << >> THEN << >>
    ELSE LET n == Len(dictionary)
             casted_dictionary == cast_keys_as_int(SubSeq(dictionary, 1, n - 1))
             key == dictionary[n][1]
             val == dictionary[n][2]
             \* a value without items() raises AttributeError and is kept
             casted_val ==
                 IF val.is_dict THEN DictVal(cast_keys_as_int(val.items))
                 ELSE val
         IN  setitem(casted_dictionary, cast_key(key), casted_val)

\* a caller casts the keys of a dictionary
CastKeysAsInt ==
    /\ pc = "call"
    /\ config # NoValue
    /\ out' = [ fn |-> "cast_keys_as_int",
                value |-> cast_keys_as_int(config.dictionary) ]
    /\ pc' = "done"
    /\ UNCHANGED <<config, pass_vars>>

InitDictionary ==
    /\ config \in [ dictionary : Dictionaries ]
    /\ pc = "call"
    /\ out = NoValue
    /\ NoPass

NextDictionary == CastKeysAsInt

SpecDictionary == InitDictionary /\ [][NextDictionary]_vars

\* the largest step of a saved parameter file
MaxStep == 1

\* what open() and pickle.load() find at a path: no file, a file that
\* loads, or a file that does not load, named by its contents:
\*   "empty"        no bytes at all
\*   "mark"         the one byte b'(', an opcode that needs more input
\*   "garbage"      the bytes b'garbage\n': the opcode g with an argument
\*                  that is no number
\*   "protocol"     the bytes b'\x80\xff': a protocol version that does
\*                  not exist
\*   "no_pickle"    the bytes b'not a pickle': the first byte is no opcode
\*   "unimportable" the pickle of an object whose class is in a module
\*                  that cannot be imported
FileStates ==
    {"missing", "valid", "empty", "mark", "garbage", "protocol", "no_pickle",
     "unimportable"}

\* the exception pickle.load raises on a file that does not load
LoadError(file_state) ==
    CASE file_state = "empty" -> "EOFError"
      [] file_state = "mark" -> "EOFError"
      [] file_state = "garbage" -> "ValueError"
      [] file_state = "protocol" -> "ValueError"
      [] file_state = "no_pickle" -> "UnpicklingError"
      [] file_state = "unimportable" -> "ModuleNotFoundError"

\* the files of a working directory that load_model_at_step looks at
Workdirs ==
    [ params_best : FileStates,
      params : FileStates,
      params_at : [0..MaxStep -> FileStates],
      config : {"missing", "valid"} ]

\* checkpoints/params_best.pkl, checkpoints/params.pkl and
\* checkpoints/params_<step>.pkl
ParamsBest == [ file |-> "checkpoints/params_best.pkl", step |-> 0 - 1 ]
ParamsLast == [ file |-> "checkpoints/params.pkl", step |-> 0 - 1 ]
ParamsAt(step) == [ file |-> "checkpoints/params_<step>.pkl", step |-> step ]

\* the state of a parameter file in a working directory
FileState(workdir, params_file) ==
    IF params_file = ParamsBest THEN workdir.params_best
    ELSE IF params_file = ParamsLast THEN workdir.params
    ELSE workdir.params_at[params_file.step]

\* what a call of a loader has done: the exception it raised if any, the
\* parameter file it loaded if any, the parameter files it tried to open
\* and the steps it took after them
Loaded(raised, params_file, tried, effects) ==
    [ raised |-> raised, params_file |-> params_file, tried |-> tried,
      effects |-> effects ]

NoFile == [ file |-> "", step |-> 0 - 1 ]

\* lines 670-680 of load_model_at_step: read the config, create the model
load_model_config(workdir, params_file, tried) ==
    IF workdir.config = "missing"
    THEN Loaded("FileNotFoundError", params_file, tried,
                <<"open config.yml">>)
    ELSE Loaded("", params_file, tried,
                <<"open config.yml", "create_model">>)

\* load_model_at_step falling back to checkpoints/params.pkl at every step
load_model_at_step_fallback(workdir, step) ==
    LET params_file == IF step = 0 - 1 THEN ParamsBest ELSE ParamsAt(step)
        first == FileState(workdir, params_file)
    IN  IF first = "valid"
        THEN load_model_config(workdir, params_file, <<params_file>>)
        ELSE IF first # "missing"
        THEN Loaded(LoadError(first), NoFile, <<params_file>>, << >>)
        ELSE IF workdir.params = "valid"
             THEN load_model_config(workdir, ParamsLast,
                                    <<params_file, ParamsLast>>)
             ELSE Loaded("FileNotFoundError", NoFile,
                         <<params_file, ParamsLast>>, << >>)

\* load_model_at_step(workdir, step, run_in_evaluation_mode)
load_model_at_step(workdir, step) ==
    LET params_file == IF step = 0 - 1 THEN ParamsBest ELSE ParamsAt(step)
        first == FileState(workdir, params_file)
    IN  IF first = "valid"
        THEN load_model_config(workdir, params_file, <<params_file>>)
        ELSE IF first # "missing"
        \* pickle.load raises its own error, which is not caught
        THEN Loaded(LoadError(first), NoFile, <<params_file>>, << >>)
        ELSE IF step = 0 - 1
        THEN IF workdir.params = "valid"
             THEN load_model_config(workdir, ParamsLast,
                                    <<params_file, ParamsLast>>)
             \* except: turns every failure into FileNotFoundError
             ELSE Loaded("FileNotFoundError", NoFile,
                         <<params_file, ParamsLast>>, << >>)
        ELSE Loaded("FileNotFoundError", NoFile, <<params_file>>, << >>)

\* a caller loads the model saved at a step
LoadModelAtStep ==
    /\ pc = "call"
    /\ config # NoValue
    /\ out' = [ fn |-> "load_model_at_step",
                value |-> load_model_at_step(config.workdir, config.step) ]
    /\ pc' = "done"
    /\ UNCHANGED <<config, pass_vars>>

InitLoadModel ==
    /\ config \in [ workdir : Workdirs, step : (0 - 1)..MaxStep,
                    run_in_evaluation_mode : BOOLEAN ]
    /\ pc = "call"
    /\ out = NoValue
    /\ NoPass

NextLoadModel == LoadModelAtStep

SpecLoadModel == InitLoadModel /\ [][NextLoadModel]_vars

\* the working directories load_from_workdir is called on
SavedWorkdirs ==
    [ exists : BOOLEAN,
      config : {"missing", "valid"},
      params : FileStates,
      params_best : FileStates ]

\* what a call of load_from_workdir has done: the exception it raised if
\* any and the steps it took, in order; the model is created twice, for
\* training and for evaluation
Ran(raised, effects) == [ raised |-> raised, effects |-> effects ]

\* the pickled parameters at a path initialise the model
load_pickled(file_state, effects) ==
    IF file_state = "missing" THEN Ran("FileNotFoundError", effects)
    ELSE IF file_state # "valid"
    THEN Ran(LoadError(file_state), effects \o <<"pickle.load">>)
    ELSE Ran("", effects \o <<"pickle.load", "ckpt.restore">>)

\* load_from_workdir of src/analysis.py
load_from_workdir(workdir, load_pickled_params, init_graphs) ==
    IF ~workdir.exists \/ workdir.config = "missing"
    THEN Ran("FileNotFoundError", << >>)
    ELSE LET obtained ==
                 IF init_graphs = None
                 THEN <<"open config.yml", "get_datasets", "create_model",
                        "create_model">>
                 ELSE <<"open config.yml", "create_model", "create_model">>
         IN  IF load_pickled_params
             THEN load_pickled(workdir.params, obtained)
             ELSE Ran("", obtained \o <<"net.init", "ckpt.restore">>)

\* load_from_workdir of src/analyses/analysis.py
analyses_load_from_workdir(workdir, load_pickled_params, init_graphs) ==
    IF ~workdir.exists \/ workdir.config = "missing"
    THEN Ran("FileNotFoundError", << >>)
    ELSE LET created == <<"open config.yml", "create_model", "create_model">>
         IN  IF load_pickled_params
             \* the second path tried is params_best.pkl again
             THEN load_pickled(workdir.params_best, created)
             ELSE IF init_graphs = None
             THEN Ran("", created \o <<"get_datasets", "net.init",
                                       "ckpt.restore">>)
             ELSE Ran("", created \o <<"net.init", "ckpt.restore">>)

\* a caller loads the best model of a working directory with
\* src/analysis.py
LoadFromWorkdir ==
    /\ pc = "call"
    /\ config # NoValue
    /\ out' = [ fn |-> "load_from_workdir",
                value |-> load_from_workdir(config.workdir,
                                            config.load_pickled_params,
                                            config.init_graphs) ]
    /\ pc' = "done"
    /\ UNCHANGED <<config, pass_vars>>

\* a caller loads the best model of a working directory with
\* src/analyses/analysis.py
AnalysesLoadFromWorkdir ==
    /\ pc = "call"
    /\ config # NoValue
    /\ out' = [ fn |-> "analyses.load_from_workdir",
                value |-> analyses_load_from_workdir(
                              config.workdir, config.load_pickled_params,
                              config.init_graphs) ]
    /\ pc' = "done"
    /\ UNCHANGED <<config, pass_vars>>

InitLoadWorkdir ==
    /\ config \in [ workdir : SavedWorkdirs,
                    load_pickled_params : BOOLEAN,
                    init_graphs : {None, <<"init_graphs">>} ]
    /\ pc = "call"
    /\ out = NoValue
    /\ NoPass

NextLoadWorkdir ==
    \/ LoadFromWorkdir
    \/ AnalysesLoadFromWorkdir

SpecLoadWorkdir == InitLoadWorkdir /\ [][NextLoadWorkdir]_vars

\* the node counts of the padded batches: at least one graph has no node
PaddedNodeCounts ==
    UNION {{n \in [0..(G - 1) -> 0..MaxNodes] :
                /\ Sum(n) \in 1..MaxNodes
                /\ \E g \in 0..(G - 1) : n[g] = 0} : G \in 2..MaxGraphs}

\* the padded batches: a graph without nodes has target species 0
PaddedBatches ==
    UNION {{MakeGraphs(n, sp,
                       [g \in DOMAIN n |->
                           IF n[g] = 0 THEN 0 ELSE sp[SumTo(n, g)]]) :
               sp \in [0..(Sum(n) - 1) -> 0..MaxSpecies]} :
               n \in PaddedNodeCounts}

\* passes on padded batches
InitPadded ==
    /\ graphs \in PaddedBatches
    /\ params \in Params
    /\ run_in_evaluation_mode \in BOOLEAN
    /\ hk_key = Seed
    /\ uniform = << >>
    /\ pc = "call"
    /\ loc = NoLocals
    /\ consumed = << >>
    /\ stages = << >>
    /\ out = NoValue
    /\ calls = << >>
    /\ config = NoValue

SpecPadded == InitPadded /\ [][Next]_vars

\* the largest resolution passed to S2Activation._complete_lmax_and_res
MaxRes == 6

\* an optional argument is None or the one-element sequence of its value
Given(x) == <<x>>
Value(x) == x[1]

\* the argument triples tried
Resolutions ==
    [ lmax : {None} \cup {Given(l) : l \in 0..MaxLmax},
      res_beta : {None} \cup {Given(r) : r \in 0..MaxRes},
      res_alpha : {None} \cup {Given(r) : r \in 0..MaxRes},
      debug : BOOLEAN ]

\* the test of line 93 asking whether some argument is None
any_none(lmax, res_beta, res_alpha) ==
    \E arg \in {lmax, res_beta, res_alpha} : arg = None

\* all(arg is None for arg in [lmax, res_beta, res_alpha])
all_none(lmax, res_beta, res_alpha) ==
    \A arg \in {lmax, res_beta, res_alpha} : arg = None

\* lines 96-100 with res_alpha + 1 not rounded down to an even number
complete_res_beta_unrounded(lmax, res_beta, res_alpha) ==
    IF res_beta = None
    THEN IF lmax # None THEN Given(2 * (Value(lmax) + 1))
         ELSE IF res_alpha # None THEN Given(Value(res_alpha) + 1)
         ELSE res_beta
    ELSE res_beta

\* lines 96-100 of _complete_lmax_and_res: res_beta if it is None
complete_res_beta(lmax, res_beta, res_alpha) ==
    IF res_beta = None
    THEN IF lmax # None THEN Given(2 * (Value(lmax) + 1))
         ELSE IF res_alpha # None
         THEN Given(2 * ((Value(res_alpha) + 1) \div 2))
         ELSE res_beta
    ELSE res_beta

\* lines 102-109 with res_alpha taken as large as res_beta
complete_res_alpha_wide(lmax, res_beta, res_alpha) ==
    IF res_alpha = None
    THEN IF lmax # None
         THEN IF res_beta # None
              THEN Given(Max2(2 * Value(lmax) + 1, Value(res_beta)))
              ELSE Given(2 * Value(lmax) + 1)
         ELSE IF res_beta # None THEN Given(Value(res_beta))
         ELSE res_alpha
    ELSE res_alpha

\* lines 102-109 of _complete_lmax_and_res: res_alpha if it is None, from
\* lmax and the res_beta completed before
complete_res_alpha(lmax, res_beta, res_alpha) ==
    IF res_alpha = None
    THEN IF lmax # None
         THEN IF res_beta # None
              THEN Given(Max2(2 * Value(lmax) + 1, Value(res_beta) - 1))
              ELSE Given(2 * Value(lmax) + 1)
         ELSE IF res_beta # None THEN Given(Value(res_beta) - 1)
         ELSE res_alpha
    ELSE res_alpha

\* lines 111-114 with lmax taken from res_beta alone
complete_lmax_from_beta(lmax, res_beta, res_alpha) ==
    IF lmax = None
    THEN Given(Value(res_beta) \div 2 - 1)
    ELSE lmax

\* lines 111-114 of _complete_lmax_and_res: lmax if it is None, from the
\* completed resolutions; // rounds down
complete_lmax(lmax, res_beta, res_alpha) ==
    IF lmax = None
    THEN Given(Min2(Value(res_beta) \div 2 - 1,
                    (Value(res_alpha) - 1) \div 2))
    ELSE lmax

\* S2Activation._complete_lmax_and_res; debug tells whether assert
\* statements are executed
_complete_lmax_and_res(lmax, res_beta, res_alpha, debug) ==
    IF all_none(lmax, res_beta, res_alpha)
    THEN [ raised |-> "ValueError", value |-> << >> ]
    ELSE LET beta == complete_res_beta(lmax, res_beta, res_alpha)
             alpha == complete_res_alpha(lmax, beta, res_alpha)
             l == complete_lmax(lmax, beta, alpha)
         IN  IF debug /\ (Value(beta) % 2 # 0
                            \/ ~(Value(l) + 1 <= Value(beta) \div 2))
             THEN [ raised |-> "AssertionError", value |-> << >> ]
             ELSE [ raised |-> "",
                    value |-> <<Value(l), Value(beta), Value(alpha)>> ]

\* a caller completes the degree and the resolutions of a spherical grid
CompleteLmaxAndRes ==
    /\ pc = "call"
    /\ config # NoValue
    /\ out' = [ fn |-> "_complete_lmax_and_res",
                value |-> _complete_lmax_and_res(config.lmax, config.res_beta,
                                                 config.res_alpha,
                                                 config.debug) ]
    /\ pc' = "done"
    /\ UNCHANGED <<config, pass_vars>>

InitResolutions ==
    /\ config \in Resolutions
    /\ pc = "call"
    /\ out = NoValue
    /\ NoPass

NextResolutions == CompleteLmaxAndRes

SpecResolutions == InitResolutions /\ [][NextResolutions]_vars

\* passes on batches that break a precondition
InitMalformed ==
    /\ graphs \in MalformedBatches
    /\ params \in Params
    /\ run_in_evaluation_mode \in BOOLEAN
    /\ hk_key = Seed
    /\ uniform = << >>
    /\ pc = "call"
    /\ loc = NoLocals
    /\ consumed = << >>
    /\ stages = << >>
    /\ out = NoValue
    /\ calls = << >>
    /\ config = NoValue

SpecMalformed == InitMalformed /\ [][Next]_vars

----------------------------------------------------------------------------
(* Properties.                                                             *)

Graphs == DOMAIN graphs.n_node

\* the node range of graph g in a batch with contiguous node ranges
NodesOf(n_node, g) == SumTo(n_node, g)..(SumTo(n_node, g + 1) - 1)

EvalDone == run_in_evaluation_mode /\ pc \in {"return", "done"}
TrainDone == ~run_in_evaluation_mode /\ pc \in {"return", "done"}

\* C1: in an evaluation pass the stages run in the order focus, species,
\* position and none is skipped: the species logits exist only once the
\* focus is sampled and are computed from the embeddings of the sampled
\* focus nodes, the position coefficients exist only once the species is
\* sampled and are computed from it, and a completed pass has done all
\* three stages for every graph.
C1_StageOrder ==
    run_in_evaluation_mode =>
        /\ loc.target_species_logits # NoValue =>
               /\ loc.focus_indices # NoValue
               /\ loc.target_species_logits =
                      target_species_logits(params,
                          [g \in Graphs |-> Gather(loc.node_embeddings,
                                                   loc.focus_indices[g])])
        /\ loc.target_species # NoValue => loc.target_species_logits # NoValue
        /\ loc.position_coeffs # NoValue =>
               /\ loc.target_species # NoValue
               /\ loc.position_coeffs =
                      target_position(loc.focus_node_embeddings,
                                      loc.target_species)
        /\ pc \in {"return", "done"} =>
               /\ stages = <<"embed", "focus", "species", "position">>
               /\ DOMAIN out.focus_indices = Graphs
               /\ DOMAIN out.target_species = Graphs
               /\ DOMAIN out.position_coeffs = Graphs

C1_Witness ==
    /\ EvalDone
    /\ Len0(graphs.n_node) = 2
    /\ stages = <<"embed", "focus", "species", "position">>
    /\ \E g \in Graphs : out.focus_indices[g] # SumTo(graphs.n_node, g)

\* C3: in evaluation mode the focus index sampled for a graph is an index
\* of a node of that same graph, whatever number the graph's key yields.
C3_FocusInOwnGraph ==
    (run_in_evaluation_mode /\ loc.focus_indices # NoValue) =>
        \A g \in Graphs :
            loc.focus_indices[g] \in NodesOf(graphs.n_node, g)

C3_Witness ==
    /\ EvalDone
    /\ Len0(graphs.n_node) = 2
    /\ graphs.n_node[1] = 2
    /\ loc.focus_indices[1] = 2
    /\ loc.focus_probs[1] # loc.focus_probs[2]

\* C4: get_first_node_indices gives, for graph g, the sum of the node
\* counts of the graphs before it, which is the lowest node index of graph
\* g, and the training pass takes the embeddings of exactly these nodes.
C4_FirstNodeIndices ==
    TrainDone =>
        \A g \in Graphs :
            /\ loc.focus_indices[g] = SumTo(graphs.n_node, g)
            /\ loc.focus_indices[g] \in NodesOf(graphs.n_node, g)
            /\ \A j \in NodesOf(graphs.n_node, g) : loc.focus_indices[g] <= j
            /\ loc.focus_node_embeddings[g] =
                   loc.node_embeddings[SumTo(graphs.n_node, g)]

C4_Witness ==
    /\ TrainDone
    /\ Len0(graphs.n_node) = 2
    /\ graphs.n_node[0] = 2
    /\ loc.focus_indices[1] = 2
    /\ loc.node_embeddings[2] # loc.node_embeddings[1]

\* C5: during an evaluation pass no key is given twice to a PRNG primitive,
\* every key a draw uses was derived by a split made earlier in the pass,
\* and the carried key rng is only ever split, never drawn from.
C5_KeysSplitOnce ==
    /\ \A i, j \in DOMAIN consumed :
           i # j => consumed[i].key # consumed[j].key
    /\ \A i \in DOMAIN consumed :
           consumed[i].op = "choice" =>
               /\ consumed[i].var # "rng"
               /\ consumed[i].key \notin {hk_key, loc.rng}
               /\ \E j \in 1..(i - 1) :
                      /\ consumed[j].op = "split"
                      /\ consumed[j].key =
                             SubSeq(consumed[i].key, 1,
                                    Len(consumed[i].key) - 1)

C5_Witness ==
    /\ EvalDone
    /\ Len0(graphs.n_node) = 2
    /\ Cardinality({i \in DOMAIN consumed : consumed[i].op = "choice"}) = 4
    /\ Cardinality({i \in DOMAIN consumed : consumed[i].op = "split"}) = 4

\* C9: a graph with exactly one node gets focus probability exactly 1 for
\* that node, and the sampler selects that node whatever number the
\* graph's key yields.
C9_SingleNodeGraph ==
    (run_in_evaluation_mode /\ loc.focus_indices # NoValue) =>
        \A g \in Graphs :
            graphs.n_node[g] = 1 =>
                /\ loc.focus_probs[SumTo(graphs.n_node, g)] = ROne
                /\ loc.focus_indices[g] = SumTo(graphs.n_node, g)

C9_Witness ==
    /\ EvalDone
    /\ Len0(graphs.n_node) = 2
    /\ graphs.n_node[0] = 2
    /\ graphs.n_node[1] = 1
    /\ loc.focus_indices[1] = 2
    /\ uniform[split(loc.focus_rng, 2)[1]] > 0

\* C6: two evaluation calls with the same parameters, the same batch and
\* the same generator state return the same focus indices, the same
\* species and the same position coefficients for every graph.
C6_SamplingDeterminism ==
    \A i, j \in DOMAIN calls :
        (/\ calls[i].mode /\ calls[j].mode
         /\ calls[i].graphs = calls[j].graphs
         /\ calls[i].params = calls[j].params
         /\ calls[i].key = calls[j].key) =>
            /\ calls[i].out.focus_indices = calls[j].out.focus_indices
            /\ calls[i].out.target_species = calls[j].out.target_species
            /\ calls[i].out.position_coeffs = calls[j].out.position_coeffs

C6_Witness ==
    /\ Len(calls) = 2
    /\ calls[1].mode
    /\ calls[2].mode
    /\ calls[1].graphs = calls[2].graphs
    /\ calls[1].key = calls[2].key
    /\ Len0(calls[1].graphs.n_node) = 2
    /\ calls[2].out.focus_indices[0] = 1
    /\ calls[2].out.target_species[1] # calls[2].out.target_species[0]

\* C7: with the batch shape and the generator state fixed, the focus index
\* sampled for a graph depends on the focus probabilities of that graph's
\* nodes only, and the species sampled for it on its own species
\* probabilities only: what the other graphs' probabilities are never
\* changes them.
C7_GraphsIndependent ==
    \A i, j \in DOMAIN calls :
        (/\ calls[i].mode /\ calls[j].mode
         /\ calls[i].graphs.n_node = calls[j].graphs.n_node
         /\ calls[i].key = calls[j].key) =>
            \A a \in DOMAIN calls[i].graphs.n_node :
                /\ (\A n \in NodesOf(calls[i].graphs.n_node, a) :
                        calls[i].focus_probs[n] =
                            calls[j].focus_probs[n])
                   => calls[i].out.focus_indices[a] =
                          calls[j].out.focus_indices[a]
                /\ (calls[i].target_species_probs[a] =
                        calls[j].target_species_probs[a])
                   => calls[i].out.target_species[a] =
                          calls[j].out.target_species[a]

C7_Witness ==
    /\ Len(calls) = 2
    /\ calls[1].graphs.n_node = calls[2].graphs.n_node
    /\ Len0(calls[1].graphs.n_node) = 2
    /\ calls[1].graphs.n_node[0] = 2
    /\ calls[1].focus_probs[0] # calls[2].focus_probs[0]
    /\ calls[1].out.focus_indices[0] # calls[2].out.focus_indices[0]
    /\ calls[1].target_species_probs[1]
           = calls[2].target_species_probs[1]
    /\ calls[1].out.focus_indices[1] = calls[2].out.focus_indices[1]
    /\ calls[1].out.target_species[1] = calls[2].out.target_species[1]
    /\ calls[1].out.target_species[1] # 0

----------------------------------------------------------------------------
(* The stop outcome as the specification describes it.                     *)

\* the virtual stop logit of a graph
stop_logit == 0

\* the per-graph softmax over the logits of the graph's nodes and the stop
\* logit: the probabilities of the nodes and the stop mass
FocusProbsWithStop(logits, n_node, g) ==
    LET nodes == NodesOf(n_node, g)
        m == CHOOSE x \in {logits[j] : j \in nodes} \cup {stop_logit} :
                 \A j \in nodes : logits[j] <= x /\ stop_logit <= x
        e == [i \in DOMAIN logits |->
                 IF i \in nodes THEN Exp(logits[i] - m) ELSE RZero]
        total == RAdd(RSumTo(e, Len0(e)), Exp(stop_logit - m))
    IN  [ nodes |-> [i \in DOMAIN logits |-> RDiv(e[i], total)],
          stop |-> RDiv(Exp(stop_logit - m), total) ]

\* the focus draw of graph g selects the stop outcome: the number the
\* graph's key yields falls beyond the mass of the graph's nodes
StopSelected(g) ==
    LET d == FocusProbsWithStop(loc.focus_logits, graphs.n_node, g)
        level == uniform[split(loc.focus_rng, loc.num_graphs)[g]]
    IN  RLess(RSumTo(d.nodes, Len0(d.nodes)),
              Rat(NumLevels - level, NumLevels))

\* the state in which graph g ends the step
StepState(g) ==
    IF g \in DOMAIN out.target_species /\ g \in DOMAIN out.position_coeffs
    THEN "STEP_COMPLETE"
    ELSE "STOPPED"

\* C2: in evaluation mode every graph ends the step in STEP_COMPLETE or in
\* STOPPED, and a graph whose focus step selects the stop outcome ends it
\* in STOPPED, with no species and no position sampled for it.
C2_StopEndsStep ==
    EvalDone =>
        \A g \in Graphs :
            /\ StepState(g) \in {"STEP_COMPLETE", "STOPPED"}
            /\ StopSelected(g) =>
                   /\ StepState(g) = "STOPPED"
                   /\ g \notin DOMAIN out.target_species
                   /\ g \notin DOMAIN out.position_coeffs

\* C8: the focus distribution used for sampling is the per-graph softmax
\* over the logits of the graph's nodes and a stop logit, so that the
\* probabilities of the graph's nodes and the stop mass sum to 1.
C8_FocusSoftmaxWithStop ==
    (run_in_evaluation_mode /\ loc.focus_probs # NoValue) =>
        \A g \in Graphs :
            LET d == FocusProbsWithStop(loc.focus_logits, graphs.n_node, g)
                own == [i \in DOMAIN loc.focus_probs |->
                           IF i \in NodesOf(graphs.n_node, g)
                           THEN loc.focus_probs[i] ELSE RZero]
            IN  /\ \A i \in NodesOf(graphs.n_node, g) :
                       loc.focus_probs[i] = d.nodes[i]
                /\ RAdd(RSumTo(own, Len0(own)), d.stop) = ROne

\* C10: a pass on a batch that breaks a precondition never completes: it
\* returns only for well-formed batches.
C10_FailsLoudly ==
    pc \in {"return", "done"} => WellFormed(graphs)

----------------------------------------------------------------------------
(* The training pass and the conditioning of the heads.                    *)

\* C11: a completed training pass has evaluated the focus head for every
\* node and the species head and the position head for every graph of the
\* batch, in one step, whether or not the graph's stop flag is set and
\* whatever the focus logits are.
C11_TrainingEvaluatesAllHeads ==
    TrainDone =>
        /\ stages = <<"embed", "focus", "species", "position">>
        /\ DOMAIN out.focus_logits = DOMAIN graphs.nodes.species
        /\ DOMAIN out.target_species_logits = Graphs
        /\ DOMAIN out.position_coeffs = Graphs
        /\ \A g \in Graphs :
               DOMAIN out.target_species_logits[g] = 0..(NUM_ELEMENTS - 1)

C11_Witness ==
    /\ TrainDone
    /\ Len0(graphs.n_node) = 2
    /\ graphs.globals.stop[0]
    /\ ~graphs.globals.stop[1]
    /\ out.position_coeffs[0] # 0
    /\ out.focus_logits[0] > 0
    /\ out.target_species_logits[0] # out.target_species_logits[1]

\* C12: in a completed pass the species head and the position head of
\* every graph were given the embedding of exactly one node of that graph:
\* the graph's first node in training, the node sampled as its focus in
\* evaluation; the position head was also given the batch's target species
\* in training and the species sampled for the graph in evaluation.
C12_HeadConditioning ==
    pc \in {"return", "done"} =>
        LET emb == node_embeddings(graphs)
            focus == [g \in Graphs |->
                         IF run_in_evaluation_mode THEN out.focus_indices[g]
                         ELSE SumTo(graphs.n_node, g)]
            given == [g \in Graphs |-> emb[focus[g]]]
            species == IF run_in_evaluation_mode THEN out.target_species
                       ELSE graphs.globals.target_species
        IN  /\ DOMAIN loc.focus_node_embeddings = Graphs
            /\ loc.focus_node_embeddings = given
            /\ \A g \in Graphs : focus[g] \in NodesOf(graphs.n_node, g)
            /\ out.target_species_logits =
                   target_species_logits(params, given)
            /\ out.position_coeffs = target_position(given, species)

C12_Witness ==
    /\ EvalDone
    /\ Len0(graphs.n_node) = 2
    /\ \E g \in Graphs :
           /\ out.focus_indices[g] # SumTo(graphs.n_node, g)
           /\ out.target_species[g] # graphs.globals.target_species[g]
           /\ out.position_coeffs[g] # 0
           /\ loc.node_embeddings[out.focus_indices[g]]
                  # loc.node_embeddings[SumTo(graphs.n_node, g)]

\* C13: every species sampled in evaluation mode is an index of the
\* element vocabulary, and it is the draw under the softmax of the graph's
\* own species logits with the graph's own key: the cumulative mass below
\* it is less than the number drawn and the mass up to it reaches that
\* number.
C13_SpeciesInVocabulary ==
    (run_in_evaluation_mode /\ loc.target_species # NoValue) =>
        \A g \in Graphs :
            LET s == loc.target_species[g]
                p == loc.target_species_probs[g]
                level == uniform[split(loc.species_rng, loc.num_graphs)[g]]
                r == Rat(NumLevels - level, NumLevels)
            IN  /\ s \in 0..(NUM_ELEMENTS - 1)
                \* the draw is compared once, when the species have just
                \* been sampled
                /\ pc = "position" =>
                       /\ p = softmax(loc.target_species_logits[g])
                       /\ RSumTo(p, NUM_ELEMENTS) = ROne
                       /\ RLess(RZero, p[s])
                       /\ RLess(RSumTo(p, s), r)
                       /\ ~RLess(RSumTo(p, s + 1), r)

C13_Witness ==
    /\ EvalDone
    /\ Len0(graphs.n_node) = 2
    /\ loc.target_species[0] = NUM_ELEMENTS - 1
    /\ loc.target_species[1] \in 1..(NUM_ELEMENTS - 2)
    /\ loc.target_species_probs[0] # loc.target_species_probs[1]

\* C14: the output of a completed evaluation pass holds, for every graph,
\* the sampled focus index, the sampled species, the sampled position
\* vector and the stop probability.
C14_EvaluationOutput ==
    EvalDone =>
        /\ {"focus_indices", "target_species", "position_vectors",
            "stop_probs"} \subseteq DOMAIN out
        /\ \A f \in {"focus_indices", "target_species", "position_vectors",
                      "stop_probs"} : DOMAIN out[f] = Graphs

\* C15: the mode flag alone selects the pass.  With the flag false the
\* pass is the training pass: it never enters the sampling steps, takes no
\* key and draws no number, and two training calls on the same batch and
\* parameters return the same output whatever the generator state; with
\* the flag true the pass is the sampling pass, which never enters the
\* training step and starts by consuming the key of the call.
C15_ModeSelectsBranch ==
    /\ ~run_in_evaluation_mode =>
           /\ pc \in {"call", "train", "return", "done"}
           /\ consumed = << >>
           /\ uniform = << >>
           /\ loc.rng = NoValue
           /\ pc \in {"return", "done"} =>
                  DOMAIN out = {"focus_logits", "target_species_logits",
                                "position_coeffs"}
    /\ run_in_evaluation_mode =>
           /\ pc # "train"
           /\ pc \in {"return", "done"} =>
                  /\ consumed[1].key = hk_key
                  /\ {"focus_indices", "target_species"} \subseteq DOMAIN out
    /\ \A i, j \in DOMAIN calls :
           (/\ ~calls[i].mode /\ ~calls[j].mode
            /\ calls[i].graphs = calls[j].graphs
            /\ calls[i].params = calls[j].params) =>
               calls[i].out = calls[j].out

C15_Witness ==
    /\ Len(calls) = 2
    /\ ~calls[1].mode
    /\ ~calls[2].mode
    /\ calls[1].key # calls[2].key
    /\ calls[1].out = calls[2].out
    /\ Len0(calls[2].graphs.n_node) = 2
    /\ calls[2].out.position_coeffs[1] # 0
    /\ consumed = << >>

\* C17: no step of a forward pass changes the input batch (species,
\* positions, edges, node counts, globals), the parameters or the mode,
\* in training and in evaluation, and a pass keeps nothing for the next
\* call: when a second call on the same batch with the same key returns,
\* its whole output and its probabilities are those of the first call.
C17_NoRetainedState ==
    [][/\ graphs' = graphs
       /\ params' = params
       /\ run_in_evaluation_mode' = run_in_evaluation_mode
       /\ (pc = "return" /\ Len(calls) = 1
             /\ calls[1].graphs = graphs /\ calls[1].key = hk_key) =>
              /\ calls'[2].out = calls[1].out
              /\ calls'[2].focus_probs = calls[1].focus_probs
              /\ calls'[2].target_species_probs
                     = calls[1].target_species_probs]_vars

C17_Witness ==
    /\ Len(calls) = 2
    /\ pc = "done"
    /\ run_in_evaluation_mode
    /\ graphs = calls[1].graphs
    /\ graphs = calls[2].graphs
    /\ calls[2].out = calls[1].out
    /\ Len0(graphs.n_node) = 2
    /\ graphs.n_node[0] = 2
    /\ calls[2].out.focus_indices[0] = 1
    /\ \E g \in Graphs :
           calls[2].out.target_species[g] # graphs.globals.target_species[g]

----------------------------------------------------------------------------
(* The heads called on their own.                                          *)

\* an array of rationals increases strictly
StrictlyIncreasing(r) ==
    \A i \in DOMAIN r : i + 1 \in DOMAIN r => RLess(r[i], r[i + 1])

RadiiCreated == pc = "done" /\ out.fn = "create_radii"

\* C16 as stated: the candidate radii are exactly num_radii values, they
\* increase strictly, the first is the minimum radius and the last is the
\* maximum radius.
C16_RadiiSpanRange ==
    RadiiCreated =>
        /\ Len0(out.value) = config.num_radii
        /\ StrictlyIncreasing(out.value)
        /\ out.value[0] = Rat(config.min_radius, 1)
        /\ out.value[config.num_radii - 1] = Rat(config.max_radius, 1)

\* C16, amended: for min_radius < max_radius the candidate radii are
\* exactly num_radii values that increase strictly and start at the minimum
\* radius; they end at the maximum radius when num_radii >= 2, and with
\* num_radii = 1 the only radius is the minimum.  The fixed grid RADII
\* increases strictly from 0.75 and ends at 2.01, below its stop 2.03.
C16_RadiiSpanRangeFromTwo ==
    /\ RadiiCreated =>
           /\ Len0(out.value) = config.num_radii
           /\ StrictlyIncreasing(out.value)
           /\ out.value[0] = Rat(config.min_radius, 1)
           /\ config.num_radii >= 2 =>
                  out.value[config.num_radii - 1] = Rat(config.max_radius, 1)
           /\ config.num_radii = 1 =>
                  out.value[config.num_radii - 1] = Rat(config.min_radius, 1)
    /\ StrictlyIncreasing(RADII)
    /\ RADII[0] = Rat(75, 100)
    /\ RADII[Len0(RADII) - 1] = Rat(201, 100)

C16_Witness ==
    /\ RadiiCreated
    /\ config.num_radii = MaxRadii
    /\ config.min_radius = 0
    /\ config.max_radius = MaxRadius
    /\ out.value[1] = Rat(MaxRadius, MaxRadii - 1)
    /\ out.value[MaxRadii - 1] = Rat(MaxRadius, 1)

HeadCalled(fn) == pc = "done" /\ out.fn = fn

\* the dimension of the irreps of the sphere up to position_coeffs_lmax
S2Dim == (config.position_coeffs_lmax + 1) * (config.position_coeffs_lmax + 1)

\* C19: for every configuration and either value of apply_gate no shape
\* assertion of a position head fails: the joint head returns shape
\* (num_graphs, num_channels, num_radii, s2 dim), the factorized head
\* returns (num_graphs, num_radii) and (num_graphs, num_channels, s2 dim),
\* and MACE.target_position returns (num_graphs, len(RADII), s2 dim).
C19_ShapeAssertionsHold ==
    /\ HeadCalled("TargetPositionPredictor") =>
           /\ out.value.raised = ""
           /\ out.value.shapes =
                  << <<out.num_graphs, config.num_channels, config.num_radii,
                       S2Dim>> >>
    /\ HeadCalled("FactorizedTargetPositionPredictor") =>
           /\ out.value.raised = ""
           /\ out.value.shapes =
                  << <<out.num_graphs, config.num_radii>>,
                     <<out.num_graphs, config.num_channels, S2Dim>> >>
    /\ HeadCalled("MACE.target_position") =>
           /\ out.value.raised = ""
           /\ out.value.shapes = << <<out.num_graphs, Len0(RADII), S2Dim>> >>

\* C20: a call of the GSchNet model returns, and the field
\* target_species_logits of its output is an array of shape
\* (num_graphs, NUM_ELEMENTS): the per-graph aggregate of the per-node
\* species logits.
C20_GSchNetSpeciesLogits ==
    HeadCalled("GSchNet") =>
        /\ out.value.raised = ""
        /\ out.value.shapes[1] = <<out.num_graphs, NUM_ELEMENTS>>

-----------------------------------------------------------------------------
(* The radius bin of an offset vector.                                     *)

\* C21: the radius bin chosen for an offset vector is the bin nearest to
\* the vector's magnitude r: the selected index minimises |RADII[i] - r|
\* over all bins, of two bins that are equally near the lower index is
\* chosen; for r below the first radius the index is 0 and for r above the
\* last radius it is the last index
C21_NearestRadiusBin ==
    HeadCalled("most_likely_radius") =>
        LET r == out.radius
            i == out.index
            last == Len0(RADII_float32) - 1
            dist(j) == abs_sub(RADII_float32[j], r)
        IN  /\ i \in DOMAIN RADII_float32
            /\ \A j \in DOMAIN RADII_float32 : ~F32Less(dist(j), dist(i))
            /\ \A j \in DOMAIN RADII_float32 : dist(j) = dist(i) => i <= j
            /\ F32Less(r, RADII_float32[0]) => i = 0
            /\ F32Less(RADII_float32[last], r) => i = last

-----------------------------------------------------------------------------
(* cast_keys_as_int.                                                       *)

\* the string s writes the integer n in decimal digits
Writes(s, n) ==
    /\ Len(s) >= 1
    /\ \A i \in 1..Len(s) : IsDigit(s[i])
    /\ n = Sum([i \in 0..(Len(s) - 1) |->
                    DigitValue(s[Len(s) - i]) * (IF i = 0 THEN 1 ELSE 10 ^ i)])

\* key k of the input has become key c of the result
KeyCast(k, c) ==
    IF Len(k.str) >= 1 /\ \A i \in 1..Len(k.str) : IsDigit(k.str[i])
    THEN c.is_int /\ Writes(k.str, c.int)
    ELSE c = k

RECURSIVE Casted(_, _)
\* r is d with its keys cast: every item of d is in r under its key cast,
\* with its value left alone if it is no dictionary and cast by the same
\* rule if it is one, and r has no key that is not the cast key of an item
\* of d
Casted(d, r) ==
    /\ \A i \in 1..Len(d) : \E j \in 1..Len(r) :
        /\ KeyCast(d[i][1], r[j][1])
        /\ IF d[i][2].is_dict
           THEN r[j][2].is_dict /\ Casted(d[i][2].items, r[j][2].items)
           ELSE r[j][2] = d[i][2]
    /\ \A j \in 1..Len(r) : \E i \in 1..Len(d) : KeyCast(d[i][1], r[j][1])

\* C22: cast_keys_as_int returns, for a (possibly nested) dictionary with
\* string keys, a dictionary in which every key that parses as an integer
\* is replaced by that integer, every other key is kept, every value that
\* is no dictionary is kept unchanged and every dictionary value is
\* converted by the same rule
C22_KeysCastAsInt ==
    HeadCalled("cast_keys_as_int") => Casted(config.dictionary, out.value)

RECURSIVE SameSize(_, _)
\* r has as many entries as d at every nesting level
SameSize(d, r) ==
    /\ Len(r) = Len(d)
    /\ \A i \in 1..Len(d) :
        d[i][2].is_dict =>
            \E j \in 1..Len(r) :
                /\ KeyCast(d[i][1], r[j][1])
                /\ r[j][2].is_dict
                /\ SameSize(d[i][2].items, r[j][2].items)

\* C26: cast_keys_as_int never merges entries: at every nesting level the
\* result has exactly as many entries as the input
C26_NeverMergesEntries ==
    HeadCalled("cast_keys_as_int") => SameSize(config.dictionary, out.value)

-----------------------------------------------------------------------------
(* load_model_at_step.                                                     *)

\* the parameter files a call of load_model_at_step tried, in order
Tried == {out.value.tried[i] : i \in 1..Len(out.value.tried)}

\* the call selected its parameter file by the step, and fell back to
\* checkpoints/params.pkl only at step -1 with params_best.pkl missing
SelectedByStep ==
    LET step == config.step
        r == out.value
    IN  /\ r.tried[1] = (IF step = 0 - 1 THEN ParamsBest ELSE ParamsAt(step))
        /\ ParamsLast \in Tried <=>
              (step = 0 - 1 /\ config.workdir.params_best = "missing")
        /\ r.params_file # NoFile =>
              /\ FileState(config.workdir, r.params_file) = "valid"
              /\ r.params_file = ParamsLast <=> ParamsLast \in Tried

\* no parameter file was loaded
NothingLoaded == out.value.params_file = NoFile

\* the call neither read the config nor created a model
ConfigUntouched == out.value.effects = << >>

\* C23 as stated: load_model_at_step selects the parameter file by step,
\* with a fallback to checkpoints/params.pkl only for step -1 and a
\* missing params_best.pkl; whenever no file can be loaded it raises
\* FileNotFoundError and neither reads the config nor creates a model
C23_LoadsByStep ==
    HeadCalled("load_model_at_step") =>
        /\ SelectedByStep
        /\ NothingLoaded =>
              /\ out.value.raised = "FileNotFoundError"
              /\ ConfigUntouched

\* the parameter file the call selected first
FirstFile == FileState(config.workdir, out.value.tried[1])

\* every parameter file the call tried is missing or does not load
NoneLoads ==
    \A params_file \in Tried : FileState(config.workdir, params_file) # "valid"

\* C23, amended: the same, except that a call that loads no file raises
\* FileNotFoundError when the file selected first is missing, and otherwise
\* lets the error that pickle.load raised on that file pass to the caller,
\* which is no FileNotFoundError
C23_LoadsByStepOrRaises ==
    HeadCalled("load_model_at_step") =>
        /\ SelectedByStep
        /\ NothingLoaded <=> NoneLoads
        /\ NothingLoaded =>
              /\ out.value.raised # ""
              /\ FirstFile = "missing" =>
                     out.value.raised = "FileNotFoundError"
              /\ FirstFile # "missing" =>
                     /\ out.value.raised = LoadError(FirstFile)
                     /\ out.value.raised # "FileNotFoundError"
                     /\ Tried = {out.value.tried[1]}
              /\ ConfigUntouched

\* a call for step -1 has failed on an empty params_best.pkl, while
\* checkpoints/params.pkl was there to load
C23_Witness ==
    /\ HeadCalled("load_model_at_step")
    /\ config.step = 0 - 1
    /\ config.workdir.params_best = "empty"
    /\ config.workdir.params = "valid"
    /\ NothingLoaded
    /\ out.value.raised = "EOFError"

-----------------------------------------------------------------------------
(* load_from_workdir.                                                      *)

\* the steps the finished call took
Effects == {out.value.effects[i] : i \in 1..Len(out.value.effects)}

\* C24: when load_from_workdir is called with load_pickled_params=True,
\* the dataset pipeline is never invoked and net.init is never called,
\* whatever the value of init_graphs
C24_PickledParamsNeedNoGraphs ==
    (/\ pc = "done"
     /\ out.fn \in {"load_from_workdir", "analyses.load_from_workdir"}
     /\ config.load_pickled_params)
        => ("get_datasets" \notin Effects /\ "net.init" \notin Effects)

-----------------------------------------------------------------------------
(* Focus indices in padded batches.                                        *)

\* C25: in a padded batch that contains a graph with zero nodes, every
\* focus index produced for every graph, by get_first_node_indices in
\* training and by segment_sample in evaluation, is a valid node index and
\* is never the index of a node that belongs to a different graph
C25_FocusIndicesStayInGraph ==
    (/\ loc.focus_indices # NoValue
     /\ \E g \in Graphs : graphs.n_node[g] = 0)
        => \A g \in Graphs :
               /\ loc.focus_indices[g] \in 0..(Len0(graphs.nodes.species) - 1)
               /\ \A h \in Graphs \ {g} :
                      loc.focus_indices[g] \notin NodesOf(graphs.n_node, h)

-----------------------------------------------------------------------------
(* S2Activation._complete_lmax_and_res.                                    *)

\* a call of _complete_lmax_and_res has ended
Completed == HeadCalled("_complete_lmax_and_res")

\* C27: _complete_lmax_and_res raises ValueError when lmax, res_beta and
\* res_alpha are all None, without a result; with at least one of them
\* given it does not raise ValueError
C27_ValueErrorIffAllNone ==
    Completed =>
        /\ out.value.raised = "ValueError" <=>
              (config.lmax = None /\ config.res_beta = None
                   /\ config.res_alpha = None)
        /\ out.value.raised = "ValueError" => out.value.value = << >>

C27_Witness ==
    /\ Completed
    /\ config.lmax = None
    /\ config.res_beta = None
    /\ config.res_alpha = None
    /\ out.value.raised = "ValueError"

\* C28: when only lmax is given, _complete_lmax_and_res returns lmax
\* unchanged with res_beta = 2 * (lmax + 1) and res_alpha = 2 * lmax + 1
C28_MinimalResolutions ==
    (/\ Completed
     /\ config.lmax # None
     /\ config.res_beta = None
     /\ config.res_alpha = None)
        => /\ out.value.raised = ""
           /\ out.value.value =
                  <<config.lmax[1], 2 * (config.lmax[1] + 1),
                    2 * config.lmax[1] + 1>>

C28_Witness ==
    /\ Completed
    /\ config.lmax = <<2>>
    /\ config.res_beta = None
    /\ config.res_alpha = None
    /\ out.value.value = <<2, 6, 5>>

\* C29: when lmax is not given, the lmax returned is the largest integer L
\* with 2 * (L + 1) <= res_beta and 2 * L + 1 <= res_alpha, for the
\* completed resolutions
C29_LargestDegree ==
    (Completed /\ config.lmax = None /\ out.value.raised = "")
        => LET L == out.value.value[1]
               res_beta == out.value.value[2]
               res_alpha == out.value.value[3]
               Fits(d) == 2 * (d + 1) <= res_beta /\ 2 * d + 1 <= res_alpha
           IN  /\ Fits(L)
               /\ \A d \in (L + 1)..(res_beta + res_alpha + 1) : ~Fits(d)

\* a degree has been completed that res_alpha limits and res_beta does not
C29_Witness ==
    /\ Completed
    /\ config.lmax = None
    /\ config.res_beta # None
    /\ config.res_alpha # None
    /\ out.value.raised = ""
    /\ 2 * (out.value.value[1] + 2) <= out.value.value[2]

\* C30: when the caller does not supply res_beta, and supplies lmax >= 0
\* or res_alpha >= 1 or both, the completed triple has an even res_beta
\* and lmax + 1 <= res_beta // 2, and the function returns
C30_AssertionsHold ==
    (/\ Completed
     /\ config.res_beta = None
     /\ (config.lmax # None \/ config.res_alpha # None)
     /\ config.lmax # None => config.lmax[1] >= 0
     /\ config.res_alpha # None => config.res_alpha[1] >= 1)
        => /\ out.value.raised = ""
           /\ out.value.value[2] % 2 = 0
           /\ out.value.value[1] + 1 <= out.value.value[2] \div 2

\* a call with assertions on, given an even res_alpha alone, has returned
C30_Witness ==
    /\ Completed
    /\ config.debug
    /\ config.lmax = None
    /\ config.res_beta = None
    /\ config.res_alpha # None
    /\ config.res_alpha[1] >= 1
    /\ config.res_alpha[1] % 2 = 0
    /\ out.value.raised = ""

====
